---- MODULE Spec2Model ----
(***************************************************************************)
(* Model of the iDRAC8 hardware monitor backend: the Redfish collection of *)
(* idrac_client.py (IDRACRedfishClient, IDRACHardwareMonitor) and the      *)
(* cache, poller, initialization and read handlers of main.py.             *)
(***************************************************************************)
EXTENDS Integers, Sequences, FiniteSets, TLC

(***************************************************************************)
(* Bounds of the model and constants of the program.                       *)
(***************************************************************************)
\* Horizon of the wall clock: datetime.now() is distinct per call below it.
MaxTime == 3

\* The most entries the System Event Log of a remote holds.
MaxSel == 25

\* The most entries the lifecycle log of a remote holds.
MaxLc == 3

\* The most entries that a long lifecycle log has beyond the tenth.
MaxLcTail == 2

\* The most drives a storage controller of a remote lists.
MaxDrives == 2

\* main.py:50  max_retries of initialize_idrac_client
max_retries == 3

\* main.py:155 max_consecutive_failures of monitoring_worker
max_consecutive_failures == 5

\* idrac_client.py:434,469  alerts[:20]
AlertLimit == 20

\* idrac_client.py:446  lc_data["Members"][:10]
LcLimit == 10

(***************************************************************************)
(* Python values.  None is a record of its own, so that it compares with   *)
(* every dict; a dict is a function from keys to values.                   *)
(***************************************************************************)
NoneVal ==
    [none |-> TRUE]

\* Python truthiness of None / dict: None and {} are falsy.
Truthy(d) ==
    d # NoneVal /\ DOMAIN d # {}

\* dict.get(key, default)
Get(d, k, default) ==
    IF k \in DOMAIN d THEN d[k] ELSE default

\* The "@odata.id" key of a Redfish reference.
OdataId ==
    "@odata.id"

\* path.split("/")[-1] of a path held as its sequence of segments.
LastSegment(path) ==
    path[Len(path)]

\* str(x).lower() over the vocabulary of Redfish State/Health/Severity values.
Lower(s) ==
    CASE s = "OK" -> "ok"
      [] s = "Ok" -> "ok"
      [] s = "Critical" -> "critical"
      [] s = "CRITICAL" -> "critical"
      [] s = "Warning" -> "warning"
      [] s = "WARNING" -> "warning"
      [] s = "Enabled" -> "enabled"
      [] s = "StandbySpare" -> "standbyspare"
      [] s = "Absent" -> "absent"
      [] s = "UnavailableOffline" -> "unavailableoffline"
      [] s = "Disabled" -> "disabled"
      [] s = "SEL" -> "sel"
      [] s = "Alert" -> "alert"
      [] s = "Oem" -> "oem"
      [] OTHER -> s

(***************************************************************************)
(* The remote controller: a set of documents by endpoint.  An endpoint is  *)
(* the sequence of path segments below /redfish/v1.                        *)
(***************************************************************************)
SystemPath ==
    <<"Systems", "System.Embedded.1">>

StoragePath ==
    SystemPath \o <<"Storage">>

SimpleStoragePath ==
    SystemPath \o <<"SimpleStorage">>

SelPath ==
    <<"Managers", "iDRAC.Embedded.1", "Logs", "Sel">>

LcPath ==
    <<"Managers", "iDRAC.Embedded.1", "Logs", "Lclog">>

Ref(path) ==
    [x \in {OdataId} |-> path]

ControllerPath ==
    StoragePath \o <<"RAID.Integrated.1-1">>

DrivePath(n) ==
    ControllerPath \o <<"Drives", n>>

VolumesPath ==
    ControllerPath \o <<"Volumes">>

VolumePath(n) ==
    VolumesPath \o <<n>>

SystemDoc ==
    [Name |-> "System", Model |-> "PowerEdge R730", Manufacturer |-> "Dell Inc.",
     SerialNumber |-> "CN7792", PowerState |-> "On", BiosVersion |-> "2.4.3",
     SystemType |-> "Physical", UUID |-> "4c4c4544", HostName |-> "node1",
     IndicatorLED |-> "Off",
     Status |-> [State |-> "Enabled", Health |-> "OK", HealthRollup |-> "OK"],
     ProcessorSummary |-> [Count |-> 2, Model |-> "Xeon",
                           Status |-> [State |-> "Enabled", Health |-> "OK"]],
     MemorySummary |-> [TotalSystemMemoryGiB |-> 64,
                        Status |-> [State |-> "Enabled", Health |-> "OK"]]]

DriveDoc(n) ==
    [Id |-> n, Name |-> "Physical Disk", CapacityBytes |-> 2, Protocol |-> "SAS",
     Model |-> "ST1200", SerialNumber |-> "S0", Manufacturer |-> "SEAGATE",
     MediaType |-> "HDD",
     Status |-> [State |-> "Enabled", Health |-> "OK"]]

VolumeDoc(n) ==
    [Id |-> n, Name |-> "Virtual Disk", CapacityBytes |-> 2, RAIDType |-> "RAID1",
     Status |-> [State |-> "Enabled", Health |-> "Warning"]]

SelEntry(id, msg, sev, created) ==
    [Id |-> id, Message |-> msg, Severity |-> sev, Created |-> created,
     EntryType |-> "SEL"]

LcEntry(id, msg, sev, created) ==
    [Id |-> id, Message |-> msg, Severity |-> sev, Created |-> created]

\* A healthy controller: identity, one controller with two drive references
\* of which one has no detail resource, one volume, two logs.
HealthyDocs ==
    (SystemPath :> SystemDoc)
    @@ (StoragePath :> [Members |-> <<Ref(ControllerPath)>>])
    @@ (ControllerPath :> [Drives |-> <<Ref(DrivePath("Disk.0")), Ref(DrivePath("Disk.1"))>>,
                           Volumes |-> Ref(VolumesPath)])
    @@ (DrivePath("Disk.0") :> DriveDoc("Disk.0"))
    @@ (VolumesPath :> [Members |-> <<Ref(VolumePath("Disk.Virtual.0"))>>])
    @@ (VolumePath("Disk.Virtual.0") :> VolumeDoc("Disk.Virtual.0"))
    @@ (SelPath :> [Members |-> <<SelEntry("1", "fan failure", "Critical", 3),
                                  SelEntry("2", "log cleared", "OK", 5)>>])
    @@ (LcPath :> [Members |-> <<LcEntry("7", "fan failure", "Critical", 4),
                                 LcEntry("8", "psu lost", "Warning", 6)>>])

\* The same controller whose storage collection lists a member without "@odata.id".
MalformedDocs ==
    (StoragePath :> [Members |-> <<[Name |-> "RAID"]>>]) @@ HealthyDocs

\* What the remote answers during one collection.
GatewayModes ==
    {"ok", "malformed", "unreachable"}

Gateway(mode) ==
    CASE mode = "ok" -> [reachable |-> TRUE, docs |-> HealthyDocs]
      [] mode = "malformed" -> [reachable |-> TRUE, docs |-> MalformedDocs]
      [] mode = "unreachable" -> [reachable |-> FALSE, docs |-> HealthyDocs]

(***************************************************************************)
(* IDRACRedfishClient                                                      *)
(***************************************************************************)
\* _make_request: a timeout or any request exception gives None (lines
\* 109-118), a 404 gives None (100-102), a 200 gives the document (92-95).
MakeRequest(gw, endpoint) ==
    IF ~gw.reachable THEN NoneVal
    ELSE IF endpoint \in DOMAIN gw.docs THEN gw.docs[endpoint]
    ELSE NoneVal

get_system_info(gw) ==
    MakeRequest(gw, SystemPath)

get_storage_controllers(gw) ==
    LET result == MakeRequest(gw, StoragePath)
    IN  IF ~Truthy(result) THEN MakeRequest(gw, SimpleStoragePath) ELSE result

get_storage_controller_details(gw, controller_id) ==
    MakeRequest(gw, StoragePath \o <<controller_id>>)

get_physical_disks(gw, controller_id) ==
    LET controller_details == get_storage_controller_details(gw, controller_id)
    IN  IF Truthy(controller_details) /\ "Drives" \in DOMAIN controller_details
        THEN [Members |-> controller_details["Drives"]]
        ELSE MakeRequest(gw, StoragePath \o <<controller_id, "Drives">>)

get_physical_disk_details(gw, disk_odata_id) ==
    MakeRequest(gw, disk_odata_id)

get_virtual_disk_details(gw, volume_odata_id) ==
    MakeRequest(gw, volume_odata_id)

get_sel_logs(gw) ==
    MakeRequest(gw, SelPath)

get_lc_logs(gw) ==
    MakeRequest(gw, LcPath)

(***************************************************************************)
(* IDRACHardwareMonitor                                                    *)
(***************************************************************************)
\* As _normalize_status, but testing for warning before critical.
normalize_status_warning_first(redfish_status) ==
    IF ~Truthy(redfish_status) THEN "unknown"
    ELSE LET state == Lower(Get(redfish_status, "State", ""))
             health == Lower(Get(redfish_status, "Health", ""))
             health_rollup == Lower(Get(redfish_status, "HealthRollup", ""))
         IN  IF health = "warning" \/ health_rollup = "warning" THEN "warning"
             ELSE IF health = "critical" \/ health_rollup = "critical" THEN "critical"
             ELSE IF health = "ok" \/ health_rollup = "ok"
                  THEN IF state = "enabled" THEN "healthy"
                       ELSE IF state = "standbyspare" THEN "standby"
                       ELSE "healthy"
             ELSE IF state = "absent" \/ state = "unavailableoffline" THEN "offline"
             ELSE "unknown"

\* _normalize_status: first match wins.
normalize_status(redfish_status) ==
    IF ~Truthy(redfish_status) THEN "unknown"
    ELSE LET state == Lower(Get(redfish_status, "State", ""))
             health == Lower(Get(redfish_status, "Health", ""))
             health_rollup == Lower(Get(redfish_status, "HealthRollup", ""))
         IN  IF health = "critical" \/ health_rollup = "critical" THEN "critical"
             ELSE IF health = "warning" \/ health_rollup = "warning" THEN "warning"
             ELSE IF health = "ok" \/ health_rollup = "ok"
                  THEN IF state = "enabled" THEN "healthy"
                       ELSE IF state = "standbyspare" THEN "standby"
                       ELSE "healthy"
             ELSE IF state = "absent" \/ state = "unavailableoffline" THEN "offline"
             ELSE "unknown"

\* The empty dict {} that .get("Status", {}) defaults to.
EmptyDict ==
    [x \in {} |-> x]

\* disk_info of one drive whose detail document is present (lines 292-319).
DiskInfo(disk_details, disk_odata_id, time) ==
    [id |-> Get(disk_details, "Id", LastSegment(disk_odata_id)),
     name |-> Get(disk_details, "Name", "Unknown"),
     status |-> normalize_status(Get(disk_details, "Status", EmptyDict)),
     interface |-> Get(disk_details, "Protocol", "Unknown"),
     model |-> Get(disk_details, "Model", "Unknown"),
     serialNumber |-> Get(disk_details, "SerialNumber", "Unknown"),
     manufacturer |-> Get(disk_details, "Manufacturer", "Unknown"),
     mediaType |-> Get(disk_details, "MediaType", "Unknown"),
     lastUpdated |-> time]

\* As DisksOfDrives, but leaving the loop at the first drive without detail.
RECURSIVE DisksOfDrivesUntilMissing(_, _, _)
DisksOfDrivesUntilMissing(gw, drives, time) ==
    IF drives = <<>> THEN <<>>
    ELSE LET drive_ref == Head(drives)
             rest == DisksOfDrivesUntilMissing(gw, Tail(drives), time)
         IN  IF OdataId \notin DOMAIN drive_ref THEN rest
             ELSE LET disk_details == get_physical_disk_details(gw, drive_ref[OdataId])
                  IN  IF ~Truthy(disk_details) THEN <<>>
                      ELSE <<DiskInfo(disk_details, drive_ref[OdataId], time)>> \o rest

\* The loop over the drive references of one controller (lines 281-321).
RECURSIVE DisksOfDrives(_, _, _)
DisksOfDrives(gw, drives, time) ==
    IF drives = <<>> THEN <<>>
    ELSE LET drive_ref == Head(drives)
             rest == DisksOfDrives(gw, Tail(drives), time)
         IN  IF OdataId \notin DOMAIN drive_ref THEN rest
             ELSE LET disk_details == get_physical_disk_details(gw, drive_ref[OdataId])
                  IN  IF ~Truthy(disk_details) THEN rest
                      ELSE <<DiskInfo(disk_details, drive_ref[OdataId], time)>> \o rest

\* The drive references of one controller (lines 274-279).
DrivesOf(gw, controller_id, controller_details) ==
    LET drives == Get(controller_details, "Drives", <<>>)
        disks_data == get_physical_disks(gw, controller_id)
    IN  IF drives # <<>> THEN drives
        ELSE IF Truthy(disks_data) /\ "Members" \in DOMAIN disks_data
             THEN disks_data["Members"]
        ELSE drives

\* The loop over the controller references (lines 265-321); a reference
\* without "@odata.id" raises KeyError at line 266.
RECURSIVE DisksOfControllers(_, _, _)
DisksOfControllers(gw, members, time) ==
    IF members = <<>> THEN [raised |-> FALSE, value |-> <<>>]
    ELSE LET controller_ref == Head(members)
         IN  IF OdataId \notin DOMAIN controller_ref
             THEN [raised |-> TRUE, value |-> <<>>]
             ELSE LET controller_id == LastSegment(controller_ref[OdataId])
                      controller_details == get_storage_controller_details(gw, controller_id)
                      here == IF ~Truthy(controller_details) THEN <<>>
                              ELSE DisksOfDrives(gw, DrivesOf(gw, controller_id, controller_details), time)
                      rest == DisksOfControllers(gw, Tail(members), time)
                  IN  [raised |-> rest.raised, value |-> here \o rest.value]

get_physical_disks_status(gw, time) ==
    LET controllers_data == get_storage_controllers(gw)
    IN  IF ~Truthy(controllers_data) \/ "Members" \notin DOMAIN controllers_data
        THEN [raised |-> FALSE, value |-> <<>>]
        ELSE DisksOfControllers(gw, controllers_data["Members"], time)

\* virtual_disk_info of one volume whose detail is present (lines 365-390).
VirtualDiskInfo(volume_details, volume_odata_id, time) ==
    LET direct == Get(volume_details, "RAIDType", "Unknown")
        raid_type == IF direct = "Unknown" /\ "VolumeType" \in DOMAIN volume_details
                     THEN volume_details["VolumeType"] ELSE direct
    IN  [id |-> Get(volume_details, "Id", LastSegment(volume_odata_id)),
         name |-> Get(volume_details, "Name", "Unknown"),
         status |-> normalize_status(Get(volume_details, "Status", EmptyDict)),
         raidLevel |-> raid_type,
         encrypted |-> Get(volume_details, "Encrypted", FALSE),
         lastUpdated |-> time]

\* The loop over the volume references of one collection (lines 354-392).
RECURSIVE DisksOfVolumes(_, _, _)
DisksOfVolumes(gw, volumes, time) ==
    IF volumes = <<>> THEN <<>>
    ELSE LET volume_ref == Head(volumes)
             rest == DisksOfVolumes(gw, Tail(volumes), time)
         IN  IF OdataId \notin DOMAIN volume_ref THEN rest
             ELSE LET volume_details == get_virtual_disk_details(gw, volume_ref[OdataId])
                  IN  IF ~Truthy(volume_details) THEN rest
                      ELSE <<VirtualDiskInfo(volume_details, volume_ref[OdataId], time)>> \o rest

\* The volumes of one controller: only through its Volumes link (lines 345-396).
VolumesOf(gw, controller_details, time) ==
    IF "Volumes" \notin DOMAIN controller_details THEN <<>>
    ELSE IF OdataId \notin DOMAIN controller_details["Volumes"] THEN <<>>
    ELSE LET volumes_data == MakeRequest(gw, controller_details["Volumes"][OdataId])
         IN  IF Truthy(volumes_data) /\ "Members" \in DOMAIN volumes_data
             THEN DisksOfVolumes(gw, volumes_data["Members"], time)
             ELSE <<>>

RECURSIVE VolumesOfControllers(_, _, _)
VolumesOfControllers(gw, members, time) ==
    IF members = <<>> THEN [raised |-> FALSE, value |-> <<>>]
    ELSE LET controller_ref == Head(members)
         IN  IF OdataId \notin DOMAIN controller_ref
             THEN [raised |-> TRUE, value |-> <<>>]
             ELSE LET controller_id == LastSegment(controller_ref[OdataId])
                      controller_details == get_storage_controller_details(gw, controller_id)
                      here == IF ~Truthy(controller_details) THEN <<>>
                              ELSE VolumesOf(gw, controller_details, time)
                      rest == VolumesOfControllers(gw, Tail(members), time)
                  IN  [raised |-> rest.raised, value |-> here \o rest.value]

get_virtual_disks_status(gw, time) ==
    LET controllers_data == get_storage_controllers(gw)
    IN  IF ~Truthy(controllers_data) \/ "Members" \notin DOMAIN controllers_data
        THEN [raised |-> FALSE, value |-> <<>>]
        ELSE VolumesOfControllers(gw, controllers_data["Members"], time)

\* alerts[:n]
Take(s, n) ==
    SubSeq(s, 1, IF Len(s) < n THEN Len(s) ELSE n)

\* One step of list.sort(key=timestamp, reverse=True): the sort is stable, so
\* an alert goes behind every alert that is at least as new.
InsertDesc(sorted, a) ==
    LET k == Cardinality({i \in 1..Len(sorted) : sorted[i].timestamp >= a.timestamp})
    IN  SubSeq(sorted, 1, k) \o <<a>> \o SubSeq(sorted, k + 1, Len(sorted))

RECURSIVE SortDescFrom(_, _)
SortDescFrom(sorted, rest) ==
    IF rest = <<>> THEN sorted
    ELSE SortDescFrom(InsertDesc(sorted, Head(rest)), Tail(rest))

\* alerts.sort(key=lambda x: x["timestamp"], reverse=True)
SortDesc(alerts) ==
    SortDescFrom(<<>>, alerts)

\* The loop over the SEL entries (lines 413-430).
RECURSIVE SelAlerts(_, _, _)
SelAlerts(alerts, entries, time) ==
    IF entries = <<>> THEN alerts
    ELSE LET entry == Head(entries)
             severity == Lower(Get(entry, "Severity", ""))
             entry_type == Lower(Get(entry, "EntryType", ""))
             alert == [id |-> Get(entry, "Id", ToString(Len(alerts))),
                       message |-> Get(entry, "Message", "Unknown alert"),
                       severity |-> IF severity # "" THEN severity ELSE "information",
                       timestamp |-> Get(entry, "Created", time),
                       entryType |-> Get(entry, "EntryType", "Event"),
                       acknowledged |-> FALSE]
         IN  IF severity \in {"critical", "warning"} \/ entry_type = "sel" \/ entry_type = "alert"
             THEN SelAlerts(Append(alerts, alert), Tail(entries), time)
             ELSE SelAlerts(alerts, Tail(entries), time)

\* As LcAlerts, but without the test of line 451.
RECURSIVE LcAlertsAll(_, _, _)
LcAlertsAll(alerts, entries, time) ==
    IF entries = <<>> THEN alerts
    ELSE LET entry == Head(entries)
             severity == Lower(Get(entry, "Severity", ""))
             alert == [id |-> <<"LC_", Get(entry, "Id", ToString(Len(alerts)))>>,
                       message |-> Get(entry, "Message", ""),
                       severity |-> severity,
                       timestamp |-> Get(entry, "Created", time),
                       entryType |-> "LifecycleLog",
                       acknowledged |-> FALSE]
         IN  IF severity \in {"critical", "warning"}
             THEN LcAlertsAll(Append(alerts, alert), Tail(entries), time)
             ELSE LcAlertsAll(alerts, Tail(entries), time)

\* The loop over the first lifecycle log entries (lines 446-461).
RECURSIVE LcAlerts(_, _, _)
LcAlerts(alerts, entries, time) ==
    IF entries = <<>> THEN alerts
    ELSE LET entry == Head(entries)
             severity == Lower(Get(entry, "Severity", ""))
             message == Get(entry, "Message", "")
             alert == [id |-> <<"LC_", Get(entry, "Id", ToString(Len(alerts)))>>,
                       message |-> message,
                       severity |-> severity,
                       timestamp |-> Get(entry, "Created", time),
                       entryType |-> "LifecycleLog",
                       acknowledged |-> FALSE]
         IN  IF severity \in {"critical", "warning"}
                /\ ~\E i \in 1..Len(alerts) : alerts[i].message = message
             THEN LcAlerts(Append(alerts, alert), Tail(entries), time)
             ELSE LcAlerts(alerts, Tail(entries), time)

\* As get_system_alerts, but examining every entry of the lifecycle log.
get_system_alerts_whole_log(gw, time) ==
    LET sel_data == get_sel_logs(gw)
        from_sel == IF Truthy(sel_data) /\ "Members" \in DOMAIN sel_data
                    THEN Take(SortDesc(SelAlerts(<<>>, sel_data["Members"], time)), AlertLimit)
                    ELSE <<>>
        lc_data == get_lc_logs(gw)
        merged == IF Truthy(lc_data) /\ "Members" \in DOMAIN lc_data
                  THEN LcAlerts(from_sel, lc_data["Members"], time)
                  ELSE from_sel
    IN  Take(SortDesc(merged), AlertLimit)

\* As get_system_alerts, but without the final sort of line 467.
get_system_alerts_unsorted(gw, time) ==
    LET sel_data == get_sel_logs(gw)
        from_sel == IF Truthy(sel_data) /\ "Members" \in DOMAIN sel_data
                    THEN Take(SortDesc(SelAlerts(<<>>, sel_data["Members"], time)), AlertLimit)
                    ELSE <<>>
        lc_data == get_lc_logs(gw)
        merged == IF Truthy(lc_data) /\ "Members" \in DOMAIN lc_data
                  THEN LcAlerts(from_sel, Take(lc_data["Members"], LcLimit), time)
                  ELSE from_sel
    IN  Take(merged, AlertLimit)

get_system_alerts(gw, time) ==
    LET sel_data == get_sel_logs(gw)
        from_sel == IF Truthy(sel_data) /\ "Members" \in DOMAIN sel_data
                    THEN Take(SortDesc(SelAlerts(<<>>, sel_data["Members"], time)), AlertLimit)
                    ELSE <<>>
        lc_data == get_lc_logs(gw)
        merged == IF Truthy(lc_data) /\ "Members" \in DOMAIN lc_data
                  THEN LcAlerts(from_sel, Take(lc_data["Members"], LcLimit), time)
                  ELSE from_sel
    IN  Take(SortDesc(merged), AlertLimit)

\* server_info of get_full_hardware_status (lines 482-525).
DefaultServerInfo(time) ==
    [name |-> "Unknown", model |-> "Unknown", manufacturer |-> "Unknown",
     serialNumber |-> "Unknown", powerState |-> "Unknown", biosVersion |-> "Unknown",
     processorSummary |-> EmptyDict, memorySummary |-> EmptyDict, lastUpdated |-> time]

ServerInfo(system_info, time) ==
    IF ~Truthy(system_info) THEN DefaultServerInfo(time)
    ELSE [name |-> Get(system_info, "Name", "Unknown"),
          model |-> Get(system_info, "Model", "Unknown"),
          manufacturer |-> Get(system_info, "Manufacturer", "Unknown"),
          serialNumber |-> Get(system_info, "SerialNumber", "Unknown"),
          powerState |-> Get(system_info, "PowerState", "Unknown"),
          biosVersion |-> Get(system_info, "BiosVersion", "Unknown"),
          systemType |-> Get(system_info, "SystemType", "Physical"),
          uuid |-> Get(system_info, "UUID", ""),
          hostName |-> Get(system_info, "HostName", ""),
          indicatorLED |-> Get(system_info, "IndicatorLED", ""),
          status |-> normalize_status(Get(system_info, "Status", EmptyDict)),
          processorSummary |->
              IF "ProcessorSummary" \in DOMAIN system_info
              THEN LET proc_summary == system_info["ProcessorSummary"]
                   IN  [count |-> Get(proc_summary, "Count", 0),
                        model |-> Get(proc_summary, "Model", "Unknown"),
                        status |-> normalize_status(Get(proc_summary, "Status", EmptyDict))]
              ELSE EmptyDict,
          memorySummary |->
              IF "MemorySummary" \in DOMAIN system_info
              THEN LET mem_summary == system_info["MemorySummary"]
                   IN  [totalSystemMemoryGiB |-> Get(mem_summary, "TotalSystemMemoryGiB", 0),
                        status |-> normalize_status(Get(mem_summary, "Status", EmptyDict))]
              ELSE EmptyDict,
          lastUpdated |-> time]

\* get_full_hardware_status: the Snapshot, or the exception that a collector
\* let escape (get_system_alerts catches its own, lines 463-464).
get_full_hardware_status(gw, time) ==
    LET server_info == ServerInfo(get_system_info(gw), time)
        physical_disks == get_physical_disks_status(gw, time)
        virtual_disks == get_virtual_disks_status(gw, time)
        alerts == get_system_alerts(gw, time)
    IN  IF physical_disks.raised \/ virtual_disks.raised
        THEN [raised |-> TRUE, value |-> NoneVal]
        ELSE [raised |-> FALSE,
              value |-> [serverInfo |-> server_info,
                         physicalDisks |-> physical_disks.value,
                         virtualDisks |-> virtual_disks.value,
                         alerts |-> alerts,
                         lastRefresh |-> time]]

\* data and data.get("serverInfo") (main.py lines 68 and 115) of a collection
\* that returned.
Accepted(collected) ==
    Truthy(collected) /\ Truthy(Get(collected, "serverInfo", NoneVal))

\* len(json.dumps(cached_hardware_data)): grows with every key and list item.
JsonSize(cached) ==
    Cardinality(DOMAIN cached.serverInfo) + Len(cached.physicalDisks)
        + Len(cached.virtualDisks) + Len(cached.alerts)

(***************************************************************************)
(* main.py: the module's globals, the three threads (the executor thread   *)
(* that runs initialize_idrac_client at startup, the monitoring thread and *)
(* the event loop that runs the request handlers one at a time) and their  *)
(* locals.                                                                 *)
(***************************************************************************)
VARIABLES
    cached_hardware_data,      \* main.py:17  None or the Snapshot
    last_update_time,          \* main.py:18  0 for None, else the time stored
    hardware_monitor,          \* main.py:43  "None" or "monitor"
    update_lock,               \* main.py:21  "free" or the thread holding it
    initialization_complete,   \* main.py:22  threading.Event
    initial_data_fetched,      \* main.py:23  threading.Event
    is_monitoring,             \* main.py:20
    now,                       \* the wall clock read by datetime.now()
    pc,                        \* per thread: the statement it is at
    callsite,                  \* per thread: who called update_hardware_data
    attempt,                   \* per thread: attempt of initialize_idrac_client
    data,                      \* per thread: test_data / data just collected
    success,                   \* per thread: what update_hardware_data returned
    consecutive_failures,      \* monitoring_worker's counter
    request,                   \* the handler the event loop is running
    wait_result,               \* what initialization_complete.wait returned
    resp,                      \* the response the handler builds / returned
    cycle,                     \* per thread: the gateway and the cache at the
                               \* start of its current refresh cycle
    writes,                    \* history: the (snapshot, stored-time) pairs written
                               \* that the cache or a response still holds
    redfish,                   \* the documents of the remote that a collector of
                               \* IDRACHardwareMonitor is run against on its own
    returned                   \* what that collector returned

vars ==
    <<cached_hardware_data, last_update_time, hardware_monitor, update_lock,
      initialization_complete, initial_data_fetched, is_monitoring, now, pc,
      callsite, attempt, data, success, consecutive_failures, request,
      wait_result, resp, cycle, writes, redfish, returned>>

\* The state of the service (main.py) and that of a collector run on its own.
serviceVars ==
    <<cached_hardware_data, last_update_time, hardware_monitor, update_lock,
      initialization_complete, initial_data_fetched, is_monitoring, now, pc,
      callsite, attempt, data, success, consecutive_failures, request,
      wait_result, resp, cycle, writes>>

collectorVars ==
    <<redfish, returned>>

Threads ==
    {"init", "poller", "web"}

\* The threads that run initialize_idrac_client (main.py:187 and main.py:170).
Initializers ==
    {"init", "poller"}

\* The threads that run update_hardware_data (main.py:152,162 and main.py:257).
Updaters ==
    {"poller", "web"}

\* The list handlers: get_physical_disks, get_virtual_disks, get_alerts, get_server_info.
ListHandlers ==
    {"physical", "virtual", "alerts", "info"}

Handlers ==
    {"status", "stats"} \cup ListHandlers

\* The statements of initialize_idrac_client (main.py:46-97).
InitLabels ==
    {"init_attempt", "init_collect", "init_lock", "init_store_data",
     "init_store_time", "init_set_complete", "init_set_fetched", "init_exhausted"}

\* The statements of update_hardware_data (main.py:100-137).
UpdLabels ==
    {"upd_check", "upd_lock", "upd_collect", "upd_store_data", "upd_store_time"}

\* datetime.now(): later calls give later times, up to the horizon.
Tick(t) ==
    IF t < MaxTime THEN t + 1 ELSE t

NoCycle ==
    [gw |-> "none", snapshot |-> NoneVal, time |-> 0]

NoResp ==
    [kind |-> "none"]

\* No collector has been run on its own.
NoDocs ==
    [x \in {} |-> x]

NoReturn ==
    [op |-> "none"]

\* The globals of main.py after import and the threads of startup_event.
InitService ==
    /\ cached_hardware_data = NoneVal
    /\ last_update_time = 0
    /\ hardware_monitor = "None"
    /\ update_lock = "free"
    /\ initialization_complete = FALSE
    /\ initial_data_fetched = FALSE
    /\ is_monitoring = TRUE
    /\ now = 1
    /\ pc = [t \in Threads |-> CASE t = "init" -> "init_attempt"
                                 [] t = "poller" -> "mon_wait"
                                 [] t = "web" -> "idle"]
    /\ callsite = [t \in Threads |-> "none"]
    /\ attempt = [t \in Initializers |-> 0]
    /\ data = [t \in Threads |-> NoneVal]
    /\ success = [t \in Updaters |-> FALSE]
    /\ consecutive_failures = 0
    /\ request = "none"
    /\ wait_result = FALSE
    /\ resp = NoResp
    /\ cycle = [t \in Updaters |-> NoCycle]
    /\ writes = {}

Init ==
    /\ InitService
    /\ redfish = NoDocs
    /\ returned = NoReturn

cacheVars ==
    <<cached_hardware_data, last_update_time, writes>>

eventVars ==
    <<initialization_complete, initial_data_fetched>>

webVars ==
    <<request, wait_result, resp>>

\* Where a thread continues when its call of initialize_idrac_client returns:
\* the executor thread ends, monitoring_worker goes on at line 171.
AfterInitialize(t) ==
    IF t = "poller" THEN "mon_reset" ELSE "done"

\* Where a thread continues when its call of update_hardware_data returns.
AfterUpdate(t) ==
    CASE callsite[t] = "first" -> "mon_loop"
      [] callsite[t] = "steady" -> "mon_result"
      [] callsite[t] = "status" -> "status_after"

\* return result, from update_hardware_data; line 152 drops the result.
ReturnFromUpdate(t, result) ==
    /\ success' = [success EXCEPT ![t] = IF callsite[t] = "first" THEN FALSE ELSE result]
    /\ pc' = [pc EXCEPT ![t] = AfterUpdate(t)]
    /\ callsite' = [callsite EXCEPT ![t] = "none"]
    /\ cycle' = [cycle EXCEPT ![t] = NoCycle]

\* What get_full_hardware_status returns or raises, by the condition of the
\* remote and the time of the call.
RECURSIVE CollectedUpTo(_)
CollectedUpTo(time) ==
    LET at == time :> [ok |-> get_full_hardware_status(Gateway("ok"), time),
                       malformed |-> get_full_hardware_status(Gateway("malformed"), time),
                       unreachable |-> get_full_hardware_status(Gateway("unreachable"), time)]
    IN  IF time = 1 THEN at ELSE CollectedUpTo(time - 1) @@ at

Collected ==
    CollectedUpTo(MaxTime)

\* The history after a write: the (snapshot, stored-time) written now, and
\* those written before whose snapshot a response being built still holds.
Written(snapshot, time) ==
    {[snapshot |-> snapshot, time |-> time]}
        \cup {w \in writes : "data" \in DOMAIN resp /\ resp.data = w.snapshot}

(***************************************************************************)
(* initialize_idrac_client (main.py:46-97)                                 *)
(***************************************************************************)
\* As InitConnect, but closing the gate while the sequence runs.
InitConnectClosing(t) ==
    /\ pc[t] = "init_attempt"
    /\ hardware_monitor' = "monitor"
    /\ initialization_complete' = FALSE
    /\ pc' = [pc EXCEPT ![t] = "init_collect"]
    /\ UNCHANGED <<collectorVars, cacheVars, initial_data_fetched, webVars, update_lock,
                   is_monitoring, now, callsite, attempt, data, success,
                   consecutive_failures, cycle>>

\* Lines 53-62: a new client and monitor replace the globals.
InitConnect(t) ==
    /\ pc[t] = "init_attempt"
    /\ hardware_monitor' = "monitor"
    /\ pc' = [pc EXCEPT ![t] = "init_collect"]
    /\ UNCHANGED <<collectorVars, cacheVars, eventVars, webVars, update_lock, is_monitoring, now,
                   callsite, attempt, data, success, consecutive_failures, cycle>>

\* As InitCollect, but allowing one attempt more than max_retries.
InitCollectOnceMore(t, modes) ==
    /\ pc[t] = "init_collect"
    /\ \E mode \in modes :
         LET r == Collected[now][mode]
         IN  IF ~r.raised /\ Accepted(r.value)
             THEN /\ data' = [data EXCEPT ![t] = r.value]
                  /\ now' = Tick(now)
                  /\ pc' = [pc EXCEPT ![t] = "init_lock"]
                  /\ UNCHANGED attempt
             ELSE /\ attempt' = [attempt EXCEPT ![t] = attempt[t] + 1]
                  /\ pc' = [pc EXCEPT ![t] = IF attempt[t] + 1 < max_retries + 1
                                             THEN "init_attempt" ELSE "init_exhausted"]
                  /\ UNCHANGED <<data, now>>
    /\ UNCHANGED <<collectorVars, cacheVars, eventVars, webVars, hardware_monitor, update_lock,
                   is_monitoring, callsite, success, consecutive_failures, cycle>>

\* Lines 66-68 and 84-94: the collection outside the lock; accepted data goes
\* on to be cached, rejected data or an exception ends the attempt.
InitCollect(t, modes) ==
    /\ pc[t] = "init_collect"
    /\ \E mode \in modes :
         LET r == Collected[now][mode]
         IN  IF ~r.raised /\ Accepted(r.value)
             THEN /\ data' = [data EXCEPT ![t] = r.value]
                  /\ now' = Tick(now)
                  /\ pc' = [pc EXCEPT ![t] = "init_lock"]
                  /\ UNCHANGED attempt
             ELSE /\ attempt' = [attempt EXCEPT ![t] = attempt[t] + 1]
                  /\ pc' = [pc EXCEPT ![t] = IF attempt[t] + 1 < max_retries
                                             THEN "init_attempt" ELSE "init_exhausted"]
                  /\ UNCHANGED <<data, now>>
    /\ UNCHANGED <<collectorVars, cacheVars, eventVars, webVars, hardware_monitor, update_lock,
                   is_monitoring, callsite, success, consecutive_failures, cycle>>

\* As InitLock, but signalling the fetched data before it is stored.
InitLockSignalling(t) ==
    /\ pc[t] = "init_lock"
    /\ update_lock = "free"
    /\ update_lock' = t
    /\ initial_data_fetched' = TRUE
    /\ pc' = [pc EXCEPT ![t] = "init_store_data"]
    /\ UNCHANGED <<collectorVars, cacheVars, initialization_complete, webVars, hardware_monitor,
                   is_monitoring, now, callsite, attempt, data, success,
                   consecutive_failures, cycle>>

\* Line 76: with update_lock.
InitLock(t) ==
    /\ pc[t] = "init_lock"
    /\ update_lock = "free"
    /\ update_lock' = t
    /\ pc' = [pc EXCEPT ![t] = "init_store_data"]
    /\ UNCHANGED <<collectorVars, cacheVars, eventVars, webVars, hardware_monitor, is_monitoring, now,
                   callsite, attempt, data, success, consecutive_failures, cycle>>

\* Line 77; test_data is only logged afterwards.
InitStoreData(t) ==
    /\ pc[t] = "init_store_data"
    /\ cached_hardware_data' = data[t]
    /\ data' = [data EXCEPT ![t] = NoneVal]
    /\ pc' = [pc EXCEPT ![t] = "init_store_time"]
    /\ UNCHANGED <<collectorVars, last_update_time, writes, eventVars, webVars, hardware_monitor,
                   update_lock, is_monitoring, now, callsite, attempt, success,
                   consecutive_failures, cycle>>

\* Line 78 and the end of the with block.
InitStoreTime(t) ==
    /\ pc[t] = "init_store_time"
    /\ last_update_time' = now
    /\ now' = Tick(now)
    /\ writes' = Written(cached_hardware_data, now)
    /\ update_lock' = "free"
    /\ pc' = [pc EXCEPT ![t] = "init_set_complete"]
    /\ UNCHANGED <<collectorVars, cached_hardware_data, eventVars, webVars, hardware_monitor,
                   is_monitoring, callsite, attempt, data, success,
                   consecutive_failures, cycle>>

\* Line 80.
InitSetComplete(t) ==
    /\ pc[t] = "init_set_complete"
    /\ initialization_complete' = TRUE
    /\ pc' = [pc EXCEPT ![t] = "init_set_fetched"]
    /\ UNCHANGED <<collectorVars, cacheVars, initial_data_fetched, webVars, hardware_monitor,
                   update_lock, is_monitoring, now, callsite, attempt, data, success,
                   consecutive_failures, cycle>>

\* Lines 81-83: return True.
InitSetFetched(t) ==
    /\ pc[t] = "init_set_fetched"
    /\ initial_data_fetched' = TRUE
    /\ attempt' = [attempt EXCEPT ![t] = 0]
    /\ pc' = [pc EXCEPT ![t] = AfterInitialize(t)]
    /\ UNCHANGED <<collectorVars, cacheVars, initialization_complete, webVars, hardware_monitor,
                   update_lock, is_monitoring, now, callsite, data, success,
                   consecutive_failures, cycle>>

\* As InitExhausted, but giving up also clears the cache and its time.
InitExhaustedReset(t) ==
    /\ pc[t] = "init_exhausted"
    /\ initialization_complete' = TRUE
    /\ cached_hardware_data' = NoneVal
    /\ last_update_time' = 0
    /\ attempt' = [attempt EXCEPT ![t] = 0]
    /\ pc' = [pc EXCEPT ![t] = AfterInitialize(t)]
    /\ UNCHANGED <<collectorVars, writes, initial_data_fetched, webVars, hardware_monitor,
                   update_lock, is_monitoring, now, callsite, data, success,
                   consecutive_failures, cycle>>

\* As InitExhausted, but returning without line 96.
InitExhaustedSilent(t) ==
    /\ pc[t] = "init_exhausted"
    /\ attempt' = [attempt EXCEPT ![t] = 0]
    /\ pc' = [pc EXCEPT ![t] = AfterInitialize(t)]
    /\ UNCHANGED <<collectorVars, cacheVars, eventVars, webVars, hardware_monitor, update_lock,
                   is_monitoring, now, callsite, data, success,
                   consecutive_failures, cycle>>

\* Lines 96-97: every attempt failed; return False.
InitExhausted(t) ==
    /\ pc[t] = "init_exhausted"
    /\ initialization_complete' = TRUE
    /\ attempt' = [attempt EXCEPT ![t] = 0]
    /\ pc' = [pc EXCEPT ![t] = AfterInitialize(t)]
    /\ UNCHANGED <<collectorVars, cacheVars, initial_data_fetched, webVars, hardware_monitor,
                   update_lock, is_monitoring, now, callsite, data, success,
                   consecutive_failures, cycle>>

(***************************************************************************)
(* update_hardware_data (main.py:100-137)                                  *)
(***************************************************************************)
\* Lines 104-106.
UpdCheckMonitor(t) ==
    /\ pc[t] = "upd_check"
    /\ IF hardware_monitor = "None"
       THEN ReturnFromUpdate(t, FALSE)
       ELSE /\ pc' = [pc EXCEPT ![t] = "upd_lock"]
            /\ UNCHANGED <<success, callsite, cycle>>
    /\ UNCHANGED <<collectorVars, cacheVars, eventVars, webVars, hardware_monitor, update_lock,
                   is_monitoring, now, attempt, data, consecutive_failures>>

\* As UpdLock, but entering the block without waiting for update_lock.
UpdLockFree(t) ==
    /\ pc[t] = "upd_lock"
    /\ update_lock' = t
    /\ cycle' = [cycle EXCEPT ![t] = [gw |-> "none", snapshot |-> cached_hardware_data,
                                      time |-> last_update_time]]
    /\ pc' = [pc EXCEPT ![t] = "upd_collect"]
    /\ UNCHANGED <<collectorVars, cacheVars, eventVars, webVars, hardware_monitor, is_monitoring, now,
                   callsite, attempt, data, success, consecutive_failures>>

\* Line 108: with update_lock.
UpdLock(t) ==
    /\ pc[t] = "upd_lock"
    /\ update_lock = "free"
    /\ update_lock' = t
    /\ cycle' = [cycle EXCEPT ![t] = [gw |-> "none", snapshot |-> cached_hardware_data,
                                      time |-> last_update_time]]
    /\ pc' = [pc EXCEPT ![t] = "upd_collect"]
    /\ UNCHANGED <<collectorVars, cacheVars, eventVars, webVars, hardware_monitor, is_monitoring, now,
                   callsite, attempt, data, success, consecutive_failures>>

\* As UpdCollect, but a failed collection returns with update_lock still held.
UpdCollectHolding(t, modes) ==
    /\ pc[t] = "upd_collect"
    /\ \E mode \in modes :
         LET r == Collected[now][mode]
         IN  IF ~r.raised /\ Accepted(r.value)
             THEN /\ data' = [data EXCEPT ![t] = r.value]
                  /\ cycle' = [cycle EXCEPT ![t].gw = mode]
                  /\ now' = Tick(now)
                  /\ pc' = [pc EXCEPT ![t] = "upd_store_data"]
                  /\ UNCHANGED <<success, callsite, update_lock>>
             ELSE /\ ReturnFromUpdate(t, FALSE)
                  /\ UNCHANGED <<data, now, update_lock>>
    /\ UNCHANGED <<collectorVars, cacheVars, eventVars, webVars, hardware_monitor, is_monitoring,
                   attempt, consecutive_failures>>

\* As UpdCollect, but emptying the cache when the collection fails.
UpdCollectClearing(t, modes) ==
    /\ pc[t] = "upd_collect"
    /\ \E mode \in modes :
         LET r == Collected[now][mode]
         IN  IF ~r.raised /\ Accepted(r.value)
             THEN /\ data' = [data EXCEPT ![t] = r.value]
                  /\ cycle' = [cycle EXCEPT ![t].gw = mode]
                  /\ now' = Tick(now)
                  /\ pc' = [pc EXCEPT ![t] = "upd_store_data"]
                  /\ UNCHANGED <<success, callsite, update_lock, cacheVars>>
             ELSE /\ ReturnFromUpdate(t, FALSE)
                  /\ update_lock' = "free"
                  /\ cached_hardware_data' = NoneVal
                  /\ UNCHANGED <<data, now, last_update_time, writes>>
    /\ UNCHANGED <<collectorVars, eventVars, webVars, hardware_monitor, is_monitoring,
                   attempt, consecutive_failures>>

\* Lines 113-115 and 130-137: the collection under the lock; rejected data or
\* an exception returns False and leaves the with block.
UpdCollect(t, modes) ==
    /\ pc[t] = "upd_collect"
    /\ \E mode \in modes :
         LET r == Collected[now][mode]
         IN  IF ~r.raised /\ Accepted(r.value)
             THEN /\ data' = [data EXCEPT ![t] = r.value]
                  /\ cycle' = [cycle EXCEPT ![t].gw = mode]
                  /\ now' = Tick(now)
                  /\ pc' = [pc EXCEPT ![t] = "upd_store_data"]
                  /\ UNCHANGED <<success, callsite, update_lock>>
             ELSE /\ ReturnFromUpdate(t, FALSE)
                  /\ update_lock' = "free"
                  /\ UNCHANGED <<data, now>>
    /\ UNCHANGED <<collectorVars, cacheVars, eventVars, webVars, hardware_monitor, is_monitoring,
                   attempt, consecutive_failures>>

\* Line 116; data is only logged afterwards.
UpdStoreData(t) ==
    /\ pc[t] = "upd_store_data"
    /\ cached_hardware_data' = data[t]
    /\ data' = [data EXCEPT ![t] = NoneVal]
    /\ pc' = [pc EXCEPT ![t] = "upd_store_time"]
    /\ UNCHANGED <<collectorVars, last_update_time, writes, eventVars, webVars, hardware_monitor,
                   update_lock, is_monitoring, now, callsite, attempt, success,
                   consecutive_failures, cycle>>

\* Lines 117-129: return True and leave the with block.
UpdStoreTime(t) ==
    /\ pc[t] = "upd_store_time"
    /\ last_update_time' = now
    /\ now' = Tick(now)
    /\ writes' = Written(cached_hardware_data, now)
    /\ update_lock' = "free"
    /\ ReturnFromUpdate(t, TRUE)
    /\ UNCHANGED <<collectorVars, cached_hardware_data, eventVars, webVars, hardware_monitor,
                   is_monitoring, attempt, data, consecutive_failures>>

(***************************************************************************)
(* monitoring_worker (main.py:140-175); consecutive_failures = 0 of line   *)
(* 154 is the counter's value from the start.                              *)
(***************************************************************************)
\* Line 148: the wait returns when the event is set or when its timeout elapses.
MonWait ==
    /\ pc["poller"] = "mon_wait"
    /\ pc' = [pc EXCEPT !["poller"] = "mon_first"]
    /\ UNCHANGED <<collectorVars, cacheVars, eventVars, webVars, hardware_monitor, update_lock,
                   is_monitoring, now, callsite, attempt, data, success,
                   consecutive_failures, cycle>>

\* Lines 150-152.
MonFirst ==
    /\ pc["poller"] = "mon_first"
    /\ IF ~Truthy(cached_hardware_data)
       THEN /\ callsite' = [callsite EXCEPT !["poller"] = "first"]
            /\ pc' = [pc EXCEPT !["poller"] = "upd_check"]
       ELSE /\ pc' = [pc EXCEPT !["poller"] = "mon_loop"]
            /\ UNCHANGED callsite
    /\ UNCHANGED <<collectorVars, cacheVars, eventVars, webVars, hardware_monitor, update_lock,
                   is_monitoring, now, attempt, data, success, consecutive_failures,
                   cycle>>

\* As MonLoop, but without the test of is_monitoring.
MonLoopForever ==
    /\ pc["poller"] = "mon_loop"
    /\ pc' = [pc EXCEPT !["poller"] = "mon_sleep"]
    /\ UNCHANGED <<collectorVars, cacheVars, eventVars, webVars, hardware_monitor, update_lock,
                   is_monitoring, now, callsite, attempt, data, success,
                   consecutive_failures, cycle>>

\* Line 157: while is_monitoring.
MonLoop ==
    /\ pc["poller"] = "mon_loop"
    /\ pc' = [pc EXCEPT !["poller"] = IF is_monitoring THEN "mon_sleep" ELSE "mon_exit"]
    /\ UNCHANGED <<collectorVars, cacheVars, eventVars, webVars, hardware_monitor, update_lock,
                   is_monitoring, now, callsite, attempt, data, success,
                   consecutive_failures, cycle>>

\* Lines 159-162: the sleep ends; is_monitoring is checked again.
MonWake ==
    /\ pc["poller"] = "mon_sleep"
    /\ IF is_monitoring
       THEN /\ callsite' = [callsite EXCEPT !["poller"] = "steady"]
            /\ pc' = [pc EXCEPT !["poller"] = "upd_check"]
       ELSE /\ pc' = [pc EXCEPT !["poller"] = "mon_loop"]
            /\ UNCHANGED callsite
    /\ UNCHANGED <<collectorVars, cacheVars, eventVars, webVars, hardware_monitor, update_lock,
                   is_monitoring, now, attempt, data, success, consecutive_failures,
                   cycle>>

\* As MonResult, but comparing the counter with one less than line 166 does.
MonResultEarly ==
    /\ pc["poller"] = "mon_result"
    /\ IF success["poller"]
       THEN /\ consecutive_failures' = 0
            /\ pc' = [pc EXCEPT !["poller"] = "mon_loop"]
       ELSE /\ consecutive_failures' = consecutive_failures + 1
            /\ pc' = [pc EXCEPT !["poller"] =
                         IF consecutive_failures + 1 >= max_consecutive_failures - 1
                         THEN "init_attempt" ELSE "mon_loop"]
    /\ success' = [success EXCEPT !["poller"] = FALSE]
    /\ UNCHANGED <<collectorVars, cacheVars, eventVars, webVars, hardware_monitor, update_lock,
                   is_monitoring, now, callsite, attempt, data, cycle>>

\* As MonResult, but without line 165.
MonResultKeep ==
    /\ pc["poller"] = "mon_result"
    /\ IF success["poller"]
       THEN /\ UNCHANGED consecutive_failures
            /\ pc' = [pc EXCEPT !["poller"] = "mon_loop"]
       ELSE /\ consecutive_failures' = consecutive_failures + 1
            /\ pc' = [pc EXCEPT !["poller"] =
                         IF consecutive_failures + 1 >= max_consecutive_failures
                         THEN "init_attempt" ELSE "mon_loop"]
    /\ success' = [success EXCEPT !["poller"] = FALSE]
    /\ UNCHANGED <<collectorVars, cacheVars, eventVars, webVars, hardware_monitor, update_lock,
                   is_monitoring, now, callsite, attempt, data, cycle>>

\* As MonResult, but leaving the loop when the failures reach the threshold.
MonResultGiveUp ==
    /\ pc["poller"] = "mon_result"
    /\ IF success["poller"]
       THEN /\ consecutive_failures' = 0
            /\ pc' = [pc EXCEPT !["poller"] = "mon_loop"]
       ELSE /\ consecutive_failures' = consecutive_failures + 1
            /\ pc' = [pc EXCEPT !["poller"] =
                         IF consecutive_failures + 1 >= max_consecutive_failures
                         THEN "mon_exit" ELSE "mon_loop"]
    /\ success' = [success EXCEPT !["poller"] = FALSE]
    /\ UNCHANGED <<collectorVars, cacheVars, eventVars, webVars, hardware_monitor, update_lock,
                   is_monitoring, now, callsite, attempt, data, cycle>>

\* Lines 164-170.
MonResult ==
    /\ pc["poller"] = "mon_result"
    /\ IF success["poller"]
       THEN /\ consecutive_failures' = 0
            /\ pc' = [pc EXCEPT !["poller"] = "mon_loop"]
       ELSE /\ consecutive_failures' = consecutive_failures + 1
            /\ pc' = [pc EXCEPT !["poller"] =
                         IF consecutive_failures + 1 >= max_consecutive_failures
                         THEN "init_attempt" ELSE "mon_loop"]
    /\ success' = [success EXCEPT !["poller"] = FALSE]
    /\ UNCHANGED <<collectorVars, cacheVars, eventVars, webVars, hardware_monitor, update_lock,
                   is_monitoring, now, callsite, attempt, data, cycle>>

\* As MonReset, but resetting the counter only after a reconnect that stored data.
MonResetOnSuccess ==
    /\ pc["poller"] = "mon_reset"
    /\ consecutive_failures' = IF Truthy(cached_hardware_data) THEN 0 ELSE consecutive_failures
    /\ pc' = [pc EXCEPT !["poller"] = "mon_loop"]
    /\ UNCHANGED <<collectorVars, cacheVars, eventVars, webVars, hardware_monitor, update_lock,
                   is_monitoring, now, callsite, attempt, data, success, cycle>>

\* Line 171.
MonReset ==
    /\ pc["poller"] = "mon_reset"
    /\ consecutive_failures' = 0
    /\ pc' = [pc EXCEPT !["poller"] = "mon_loop"]
    /\ UNCHANGED <<collectorVars, cacheVars, eventVars, webVars, hardware_monitor, update_lock,
                   is_monitoring, now, callsite, attempt, data, success, cycle>>

(***************************************************************************)
(* The event loop: one handler at a time (main.py:241-436), and the        *)
(* shutdown event (main.py:196-201).  A handler that has built its         *)
(* response is at "respond"; the event loop then sends it.                 *)
(***************************************************************************)
EntryOf(h) ==
    CASE h = "status" -> "status_wait"
      [] h = "stats" -> "stats_size"
      [] h \in ListHandlers -> "list_wait"

\* A request for one of the handlers arrives.
WebRequest(handlers) ==
    /\ pc["web"] = "idle"
    /\ \E h \in handlers :
         /\ request' = h
         /\ pc' = [pc EXCEPT !["web"] = EntryOf(h)]
    /\ UNCHANGED <<collectorVars, cacheVars, eventVars, wait_result, resp, hardware_monitor,
                   update_lock, is_monitoring, now, callsite, attempt, data, success,
                   consecutive_failures, cycle>>

\* The response is sent; the handler's locals are gone.
WebReturn ==
    /\ pc["web"] = "respond"
    /\ request' = "none"
    /\ wait_result' = FALSE
    /\ resp' = NoResp
    /\ pc' = [pc EXCEPT !["web"] = "idle"]
    /\ UNCHANGED <<collectorVars, cacheVars, eventVars, hardware_monitor, update_lock, is_monitoring,
                   now, callsite, attempt, data, success, consecutive_failures, cycle>>

\* shutdown_event, line 200.
Shutdown ==
    /\ pc["web"] = "idle"
    /\ is_monitoring' = FALSE
    /\ pc' = [pc EXCEPT !["web"] = "stopped"]
    /\ UNCHANGED <<collectorVars, cacheVars, eventVars, webVars, hardware_monitor, update_lock, now,
                   callsite, attempt, data, success, consecutive_failures, cycle>>

\* get_server_status, lines 245-252: the gate opens within the timeout, or the
\* wait times out and the handler answers 202.
StatusWait ==
    /\ pc["web"] = "status_wait"
    /\ wait_result' = initialization_complete
    /\ IF initialization_complete
       THEN /\ pc' = [pc EXCEPT !["web"] = "status_check"]
            /\ UNCHANGED resp
       ELSE /\ resp' = [kind |-> "status", status_code |-> 202, status |-> "initializing"]
            /\ pc' = [pc EXCEPT !["web"] = "respond"]
    /\ UNCHANGED <<collectorVars, cacheVars, eventVars, request, hardware_monitor, update_lock,
                   is_monitoring, now, callsite, attempt, data, success,
                   consecutive_failures, cycle>>

\* Lines 254-257.
StatusCheck ==
    /\ pc["web"] = "status_check"
    /\ IF ~Truthy(cached_hardware_data)
       THEN /\ callsite' = [callsite EXCEPT !["web"] = "status"]
            /\ pc' = [pc EXCEPT !["web"] = "upd_check"]
       ELSE /\ pc' = [pc EXCEPT !["web"] = "status_build_data"]
            /\ UNCHANGED callsite
    /\ UNCHANGED <<collectorVars, cacheVars, eventVars, webVars, hardware_monitor, update_lock,
                   is_monitoring, now, attempt, data, success, consecutive_failures,
                   cycle>>

\* The answer of lines 261-271.
UnavailableResponse ==
    [kind |-> "status", status_code |-> 200, status |-> "unavailable",
     serverInfo |-> EmptyDict, physicalDisks |-> <<>>, virtualDisks |-> <<>>,
     alerts |-> <<>>, error |-> "Unable to fetch data from iDRAC"]

\* Lines 259-271.
StatusAfter ==
    /\ pc["web"] = "status_after"
    /\ IF ~success["web"] \/ ~Truthy(cached_hardware_data)
       THEN /\ resp' = UnavailableResponse
            /\ pc' = [pc EXCEPT !["web"] = "respond"]
       ELSE /\ pc' = [pc EXCEPT !["web"] = "status_build_data"]
            /\ UNCHANGED resp
    /\ success' = [success EXCEPT !["web"] = FALSE]
    /\ UNCHANGED <<collectorVars, cacheVars, eventVars, request, wait_result, hardware_monitor,
                   update_lock, is_monitoring, now, callsite, attempt, data,
                   consecutive_failures, cycle>>

\* As StatusBuildData, but reading the cache with update_lock held.
StatusBuildDataLocked ==
    /\ pc["web"] = "status_build_data"
    /\ update_lock = "free"
    /\ resp' = [kind |-> "status", status_code |-> 200, data |-> cached_hardware_data]
    /\ pc' = [pc EXCEPT !["web"] = "status_build_time"]
    /\ UNCHANGED <<collectorVars, cacheVars, eventVars, request, wait_result, hardware_monitor,
                   update_lock, is_monitoring, now, callsite, attempt, data, success,
                   consecutive_failures, cycle>>

\* Line 281: **cached_hardware_data.
StatusBuildData ==
    /\ pc["web"] = "status_build_data"
    /\ resp' = [kind |-> "status", status_code |-> 200, data |-> cached_hardware_data]
    /\ pc' = [pc EXCEPT !["web"] = "status_build_time"]
    /\ UNCHANGED <<collectorVars, cacheVars, eventVars, request, wait_result, hardware_monitor,
                   update_lock, is_monitoring, now, callsite, attempt, data, success,
                   consecutive_failures, cycle>>

\* Lines 283-288: _metadata.cached_at.
StatusBuildTime ==
    /\ pc["web"] = "status_build_time"
    /\ resp' = [kind |-> "status", status_code |-> 200, data |-> resp.data,
                cached_at |-> last_update_time]
    /\ pc' = [pc EXCEPT !["web"] = "respond"]
    /\ UNCHANGED <<collectorVars, cacheVars, eventVars, request, wait_result, hardware_monitor,
                   update_lock, is_monitoring, now, callsite, attempt, data, success,
                   consecutive_failures, cycle>>

\* The part of the Snapshot a list handler serves (lines 342, 364, 386, 407).
FieldOf(h) ==
    CASE h = "physical" -> "physicalDisks"
      [] h = "virtual" -> "virtualDisks"
      [] h = "alerts" -> "alerts"
      [] h = "info" -> "serverInfo"

\* The "no_data" answer of a list handler (lines 335-340, 357-362, 379-384, 401-405).
NoDataResponse(h) ==
    [kind |-> h, status_code |-> 200, status |-> "no_data", count |-> 0, cached_at |-> 0]

\* get_physical_disks, get_virtual_disks, get_alerts, get_server_info: lines
\* 332, 354, 376, 398.  The wait returns when the gate opens or when its
\* timeout elapses; the handler drops what it returns.
ListWait ==
    /\ pc["web"] = "list_wait"
    /\ wait_result' = initialization_complete
    /\ pc' = [pc EXCEPT !["web"] = "list_check"]
    /\ UNCHANGED <<collectorVars, cacheVars, eventVars, request, resp, hardware_monitor, update_lock,
                   is_monitoring, now, callsite, attempt, data, success,
                   consecutive_failures, cycle>>

\* Lines 334-340: if not cached_hardware_data.
ListCheck ==
    /\ pc["web"] = "list_check"
    /\ IF ~Truthy(cached_hardware_data)
       THEN /\ resp' = NoDataResponse(request)
            /\ pc' = [pc EXCEPT !["web"] = "respond"]
       ELSE /\ pc' = [pc EXCEPT !["web"] = "list_read"]
            /\ UNCHANGED resp
    /\ UNCHANGED <<collectorVars, cacheVars, eventVars, request, wait_result, hardware_monitor,
                   update_lock, is_monitoring, now, callsite, attempt, data, success,
                   consecutive_failures, cycle>>

\* Line 342: cached_hardware_data.get(field).
ListRead ==
    /\ pc["web"] = "list_read"
    /\ resp' = [kind |-> request, status_code |-> 200,
                items |-> cached_hardware_data[FieldOf(request)]]
    /\ pc' = [pc EXCEPT !["web"] = "list_time"]
    /\ UNCHANGED <<collectorVars, cacheVars, eventVars, request, wait_result, hardware_monitor,
                   update_lock, is_monitoring, now, callsite, attempt, data, success,
                   consecutive_failures, cycle>>

\* Lines 343-347: count and cached_at.
ListTime ==
    /\ pc["web"] = "list_time"
    /\ resp' = [kind |-> request, status_code |-> 200, items |-> resp.items,
                count |-> IF request = "info" THEN 1 ELSE Len(resp.items),
                cached_at |-> last_update_time]
    /\ pc' = [pc EXCEPT !["web"] = "respond"]
    /\ UNCHANGED <<collectorVars, cacheVars, eventVars, request, wait_result, hardware_monitor,
                   update_lock, is_monitoring, now, callsite, attempt, data, success,
                   consecutive_failures, cycle>>

\* get_cache_stats, lines 417-419.
StatsSize ==
    /\ pc["web"] = "stats_size"
    /\ resp' = [kind |-> "stats",
                cache_size_bytes |-> IF Truthy(cached_hardware_data)
                                     THEN JsonSize(cached_hardware_data) ELSE 0]
    /\ pc' = [pc EXCEPT !["web"] = "stats_time"]
    /\ UNCHANGED <<collectorVars, cacheVars, eventVars, request, wait_result, hardware_monitor,
                   update_lock, is_monitoring, now, callsite, attempt, data, success,
                   consecutive_failures, cycle>>

\* Lines 421-428: cache_available and last_update.
StatsTime ==
    /\ pc["web"] = "stats_time"
    /\ resp' = [kind |-> "stats", cache_size_bytes |-> resp.cache_size_bytes,
                cache_available |-> cached_hardware_data # NoneVal,
                last_update |-> last_update_time]
    /\ pc' = [pc EXCEPT !["web"] = "stats_physical"]
    /\ UNCHANGED <<collectorVars, cacheVars, eventVars, request, wait_result, hardware_monitor,
                   update_lock, is_monitoring, now, callsite, attempt, data, success,
                   consecutive_failures, cycle>>

\* One count of lines 433-435: len(cached_hardware_data.get(field, [])) if
\* cached_hardware_data else 0.
CountOf(field) ==
    IF Truthy(cached_hardware_data) THEN Len(cached_hardware_data[field]) ELSE 0

\* Line 433.
StatsPhysical ==
    /\ pc["web"] = "stats_physical"
    /\ resp' = [kind |-> "stats", cache_size_bytes |-> resp.cache_size_bytes,
                cache_available |-> resp.cache_available,
                last_update |-> resp.last_update,
                physical_disks_count |-> CountOf("physicalDisks")]
    /\ pc' = [pc EXCEPT !["web"] = "stats_virtual"]
    /\ UNCHANGED <<collectorVars, cacheVars, eventVars, request, wait_result, hardware_monitor,
                   update_lock, is_monitoring, now, callsite, attempt, data, success,
                   consecutive_failures, cycle>>

\* Line 434.
StatsVirtual ==
    /\ pc["web"] = "stats_virtual"
    /\ resp' = [kind |-> "stats", cache_size_bytes |-> resp.cache_size_bytes,
                cache_available |-> resp.cache_available,
                last_update |-> resp.last_update,
                physical_disks_count |-> resp.physical_disks_count,
                virtual_disks_count |-> CountOf("virtualDisks")]
    /\ pc' = [pc EXCEPT !["web"] = "stats_alerts"]
    /\ UNCHANGED <<collectorVars, cacheVars, eventVars, request, wait_result, hardware_monitor,
                   update_lock, is_monitoring, now, callsite, attempt, data, success,
                   consecutive_failures, cycle>>

\* Lines 435-436.
StatsAlerts ==
    /\ pc["web"] = "stats_alerts"
    /\ resp' = [kind |-> "stats", cache_size_bytes |-> resp.cache_size_bytes,
                cache_available |-> resp.cache_available,
                last_update |-> resp.last_update,
                physical_disks_count |-> resp.physical_disks_count,
                virtual_disks_count |-> resp.virtual_disks_count,
                alerts_count |-> CountOf("alerts")]
    /\ pc' = [pc EXCEPT !["web"] = "respond"]
    /\ UNCHANGED <<collectorVars, cacheVars, eventVars, request, wait_result, hardware_monitor,
                   update_lock, is_monitoring, now, callsite, attempt, data, success,
                   consecutive_failures, cycle>>

(***************************************************************************)
(* The system                                                              *)
(***************************************************************************)
Initialize(t) ==
    \/ InitConnect(t)
    \/ InitCollect(t, GatewayModes)
    \/ InitLock(t)
    \/ InitStoreData(t)
    \/ InitStoreTime(t)
    \/ InitSetComplete(t)
    \/ InitSetFetched(t)
    \/ InitExhausted(t)

Update(t) ==
    \/ UpdCheckMonitor(t)
    \/ UpdLock(t)
    \/ UpdCollect(t, GatewayModes)
    \/ UpdStoreData(t)
    \/ UpdStoreTime(t)

Monitor ==
    \/ MonWait
    \/ MonFirst
    \/ MonLoop
    \/ MonWake
    \/ MonResult
    \/ MonReset

Web ==
    \/ WebRequest(Handlers)
    \/ WebReturn
    \/ Shutdown
    \/ StatusWait
    \/ StatusCheck
    \/ StatusAfter
    \/ StatusBuildData
    \/ StatusBuildTime
    \/ ListWait
    \/ ListCheck
    \/ ListRead
    \/ ListTime
    \/ StatsSize
    \/ StatsTime
    \/ StatsPhysical
    \/ StatsVirtual
    \/ StatsAlerts

Next ==
    \/ \E t \in Initializers : Initialize(t)
    \/ \E t \in Updaters : Update(t)
    \/ Monitor
    \/ Web

Spec ==
    Init /\ [][Next]_vars

(***************************************************************************)
(* The service with no client: the startup initialization and the          *)
(* monitoring thread against a remote in any condition.                    *)
(***************************************************************************)
NextNoClients ==
    \/ \E t \in Initializers : Initialize(t)
    \/ Update("poller")
    \/ Monitor

SpecNoClients ==
    Init /\ [][NextNoClients]_vars

\* Every thread that can take a step takes one; a thread waiting for
\* update_lock gets it, since its other holders sleep between their cycles
\* (main.py:159-160, 174).
FairNoClients ==
    /\ SpecNoClients
    /\ \A t \in Initializers : WF_vars(Initialize(t)) /\ SF_vars(InitLock(t))
    /\ WF_vars(Update("poller")) /\ SF_vars(UpdLock("poller"))
    /\ WF_vars(Monitor)

(***************************************************************************)
(* The service with clients, against a remote that answers every request   *)
(* with a well-formed document or not at all.                              *)
(***************************************************************************)
WellFormedModes ==
    {"ok", "unreachable"}

NextWellFormed ==
    \/ \E t \in Initializers :
          \/ InitConnect(t)
          \/ InitCollect(t, WellFormedModes)
          \/ InitLock(t)
          \/ InitStoreData(t)
          \/ InitStoreTime(t)
          \/ InitSetComplete(t)
          \/ InitSetFetched(t)
    \/ \E t \in Updaters :
          \/ UpdCheckMonitor(t)
          \/ UpdLock(t)
          \/ UpdCollect(t, WellFormedModes)
          \/ UpdStoreData(t)
          \/ UpdStoreTime(t)
    \/ Monitor
    \/ WebRequest(Handlers)
    \/ WebReturn
    \/ StatusWait
    \/ StatusCheck
    \/ StatusBuildData
    \/ StatusBuildTime
    \/ ListWait
    \/ ListCheck
    \/ ListRead
    \/ ListTime
    \/ StatsSize
    \/ StatsTime
    \/ StatsPhysical
    \/ StatsVirtual
    \/ StatsAlerts

SpecWellFormed ==
    Init /\ [][NextWellFormed]_vars

(***************************************************************************)
(* The service with clients, against a remote whose storage listing is     *)
(* malformed throughout: no collection is ever accepted.                   *)
(***************************************************************************)
MalformedModes ==
    {"malformed"}

NextMalformed ==
    \/ \E t \in Initializers :
          \/ InitConnect(t)
          \/ InitCollect(t, MalformedModes)
          \/ InitExhausted(t)
    \/ \E t \in Updaters :
          \/ UpdCheckMonitor(t)
          \/ UpdLock(t)
          \/ UpdCollect(t, MalformedModes)
    \/ Monitor
    \/ WebRequest(Handlers)
    \/ WebReturn
    \/ StatusWait
    \/ StatusCheck
    \/ StatusAfter
    \/ ListWait
    \/ ListCheck
    \/ StatsSize
    \/ StatsTime
    \/ StatsPhysical
    \/ StatsVirtual
    \/ StatsAlerts

SpecMalformed ==
    Init /\ [][NextMalformed]_vars

(***************************************************************************)
(* The service with no client until it is shut down: the two threads       *)
(* against a remote in any condition, and shutdown_event at any moment.    *)
(***************************************************************************)
NextStopping ==
    \/ \E t \in Initializers : Initialize(t)
    \/ Update("poller")
    \/ Monitor
    \/ Shutdown

SpecStopping ==
    Init /\ [][NextStopping]_vars

(***************************************************************************)
(* The writers of the cache: the startup initialization, the monitoring    *)
(* thread with its reconnects, and the fetch-through of get_server_status, *)
(* against a remote whose answers are well-formed at times and malformed   *)
(* at others.                                                              *)
(***************************************************************************)
WriterModes ==
    {"ok", "malformed"}

NextWriters ==
    \/ \E t \in Initializers :
          \/ InitConnect(t)
          \/ InitCollect(t, WriterModes)
          \/ InitLock(t)
          \/ InitStoreData(t)
          \/ InitStoreTime(t)
          \/ InitSetComplete(t)
          \/ InitSetFetched(t)
          \/ InitExhausted(t)
    \/ \E t \in Updaters :
          \/ UpdCheckMonitor(t)
          \/ UpdLock(t)
          \/ UpdCollect(t, WriterModes)
          \/ UpdStoreData(t)
          \/ UpdStoreTime(t)
    \/ Monitor
    \/ WebRequest({"status"})
    \/ WebReturn
    \/ StatusWait
    \/ StatusCheck
    \/ StatusAfter
    \/ StatusBuildData
    \/ StatusBuildTime

SpecWriters ==
    Init /\ [][NextWriters]_vars

\* The writers and the readers of the cache until shutdown_event (main.py:197-201).
NextLifetime ==
    \/ NextWriters
    \/ Shutdown

SpecLifetime ==
    Init /\ [][NextLifetime]_vars

(***************************************************************************)
(* The collectors of IDRACHardwareMonitor run on their own against a       *)
(* remote that answers every request: the documents of the remote are the  *)
(* input.  Four families of remotes: event logs of every length, order and *)
(* overlap; status objects of every content; storage with drives whose     *)
(* detail is missing; identity documents that are whole, partial or absent.*)
(***************************************************************************)
\* --- event logs ---
SelCounts ==
    {0, 2, AlertLimit + 1, MaxSel}

SelOrders ==
    {"ascending", "descending", "shuffled", "equal"}

\* The Created value of the i-th of n entries.
CreatedAt(order, i, n) ==
    CASE order = "ascending" -> i
      [] order = "descending" -> n + 1 - i
      [] order = "shuffled" -> (i * 7) % (MaxSel + 2)
      [] order = "equal" -> 1

\* The i-th raw SEL entry: severities and entry types alternate, and every
\* seventh entry has neither Severity nor Message.
RawSelEntry(order, i, n) ==
    LET severity == CASE i % 3 = 0 -> "Critical"
                      [] i % 3 = 1 -> "Warning"
                      [] OTHER -> "OK"
        entry_type == IF i % 5 = 0 THEN "Oem" ELSE "SEL"
    IN  IF i % 7 = 0
        THEN [Id |-> ToString(i), Created |-> CreatedAt(order, i, n),
              EntryType |-> entry_type]
        ELSE [Id |-> ToString(i), Message |-> ToString(i), Severity |-> severity,
              Created |-> CreatedAt(order, i, n), EntryType |-> entry_type]

RawSel(order, n) ==
    [i \in 1..n |-> RawSelEntry(order, i, n)]

\* A raw lifecycle entry repeats the message of the first or of the last SEL
\* entry or has one of its own, and is older or newer than every SEL entry.
RawLcEntries ==
    {LcEntry("L", message, "Critical", created) :
        message \in {"1", ToString(MaxSel), "psu lost"}, created \in {0, MaxSel + 5}}
        \cup {LcEntry("L", "firmware updated", "OK", MaxSel + 5)}

RawLc ==
    UNION {[1..k -> RawLcEntries] : k \in 0..MaxLc}

LogRemotes ==
    {(SelPath :> [Members |-> RawSel(order, n)]) @@ (LcPath :> [Members |-> lc]) :
        order \in SelOrders, n \in SelCounts, lc \in RawLc}

\* --- status objects ---
StateValues ==
    {"Enabled", "enabled", "StandbySpare", "Absent", "UnavailableOffline", "Disabled"}

HealthValues ==
    {"OK", "ok", "Critical", "CRITICAL", "Warning", "WARNING"}

RollupValues ==
    {"OK", "Ok", "Critical", "Warning"}

\* Every status object: each of State, Health and HealthRollup absent or present.
StatusObjects ==
    {[k \in keys |-> CASE k = "State" -> triple[1]
                       [] k = "Health" -> triple[2]
                       [] k = "HealthRollup" -> triple[3]] :
        keys \in SUBSET {"State", "Health", "HealthRollup"},
        triple \in StateValues \X HealthValues \X RollupValues}

StatusRemotes ==
    {SystemPath :> [Name |-> "System", Status |-> status] : status \in StatusObjects}

\* --- storage ---
ControllerIds ==
    <<"RAID.Integrated.1-1", "AHCI.Embedded.2-1">>

DrivesPath(c) ==
    StoragePath \o <<ControllerIds[c], "Drives">>

\* Drive k of controller c.
DriveRef(c, k) ==
    Ref(DrivesPath(c) \o <<ToString(c * 10 + k)>>)

\* present[k] says whether drive k of the controller has a detail resource.
DrivePatterns ==
    UNION {[1..k -> BOOLEAN] : k \in 0..MaxDrives}

DriveDetails(c, present) ==
    [path \in {DriveRef(c, k)[OdataId] : k \in {j \in 1..Len(present) : present[j]}}
        |-> DriveDoc(LastSegment(path))]

\* The Volumes collection of a controller whose record does not link to it:
\* Storage/<controller>/Volumes, with one volume whose detail is present.
DirectVolumesPath(c) ==
    StoragePath \o <<ControllerIds[c], "Volumes">>

DirectVolumes(c) ==
    LET volume == DirectVolumesPath(c) \o <<"Disk.Virtual.1">>
    IN  (DirectVolumesPath(c) :> [Members |-> <<Ref(volume)>>])
            @@ (volume :> VolumeDoc("Disk.Virtual.1"))

\* A controller that lists its drives in its own document, or in its Drives
\* collection; the record of the first controller links to its volumes, the
\* record of the second has no Volumes link.
ControllerDocs(c, present, inline) ==
    LET refs == [k \in 1..Len(present) |-> DriveRef(c, k)]
        path == StoragePath \o <<ControllerIds[c]>>
        volumes == IF c = 1 THEN [Volumes |-> Ref(VolumesPath)] ELSE NoDocs
        unlinked == IF c = 1 THEN NoDocs ELSE DirectVolumes(c)
    IN  IF inline
        THEN (path :> ([Id |-> ControllerIds[c], Drives |-> refs] @@ volumes))
                @@ DriveDetails(c, present) @@ unlinked
        ELSE (path :> ([Id |-> ControllerIds[c]] @@ volumes))
                @@ (DrivesPath(c) :> [Members |-> refs])
                @@ DriveDetails(c, present) @@ unlinked

StorageRemotes ==
    {(SystemPath :> SystemDoc)
        @@ (StoragePath :> [Members |-> [c \in 1..Len(patterns) |->
                                            Ref(StoragePath \o <<ControllerIds[c]>>)]])
        @@ ControllerDocs(1, patterns[1], inline)
        @@ (IF Len(patterns) = 2 THEN ControllerDocs(2, patterns[2], inline) ELSE NoDocs)
        @@ (VolumesPath :> [Members |-> <<Ref(VolumePath("Disk.Virtual.0"))>>])
        @@ (VolumePath("Disk.Virtual.0") :> VolumeDoc("Disk.Virtual.0")) :
        patterns \in [1..1 -> DrivePatterns] \cup [1..2 -> DrivePatterns],
        inline \in BOOLEAN}

\* --- identity ---
\* The identity document restricted to some of its keys.
PartialSystemDocs ==
    {[k \in keys |-> SystemDoc[k]] :
        keys \in {DOMAIN SystemDoc,
                  DOMAIN SystemDoc \ {"ProcessorSummary", "MemorySummary"},
                  DOMAIN SystemDoc \ {"UUID", "HostName", "IndicatorLED", "Status"},
                  {"Name", "Model"}}}

IdentityRemotes ==
    {HealthyDocs} \cup {(SystemPath :> doc) @@ HealthyDocs : doc \in PartialSystemDocs}
        \cup {[path \in DOMAIN HealthyDocs \ {SystemPath} |-> HealthyDocs[path]]}

Remotes ==
    LogRemotes \cup StatusRemotes \cup StorageRemotes \cup IdentityRemotes

\* The remote as the client sees it: every request is answered.
Reachable ==
    [reachable |-> TRUE, docs |-> redfish]

InitCollector ==
    /\ InitService
    /\ redfish \in Remotes
    /\ returned = NoReturn

\* IDRACHardwareMonitor.get_system_alerts()
CollectAlerts ==
    /\ returned' = [op |-> "alerts", value |-> get_system_alerts(Reachable, now)]
    /\ UNCHANGED <<serviceVars, redfish>>

\* IDRACHardwareMonitor.get_physical_disks_status()
CollectPhysicalDisks ==
    /\ returned' = [op |-> "physical"] @@ get_physical_disks_status(Reachable, now)
    /\ UNCHANGED <<serviceVars, redfish>>

\* IDRACHardwareMonitor.get_full_hardware_status()
CollectFull ==
    /\ returned' = [op |-> "full"] @@ get_full_hardware_status(Reachable, now)
    /\ UNCHANGED <<serviceVars, redfish>>

\* IDRACHardwareMonitor._normalize_status(system_info.get("Status", {}))
NormalizeStatus ==
    /\ SystemPath \in DOMAIN redfish
    /\ returned' = [op |-> "normalize",
                    value |-> normalize_status(Get(redfish[SystemPath], "Status", EmptyDict))]
    /\ UNCHANGED <<serviceVars, redfish>>

NextCollector ==
    \/ CollectAlerts
    \/ CollectPhysicalDisks
    \/ CollectFull
    \/ NormalizeStatus

SpecCollector ==
    InitCollector /\ [][NextCollector]_vars

\* --- long lifecycle logs ---
\* The first LcLimit entries of a long lifecycle log: none of them qualifies,
\* or all of them do, each with a message of its own.
LcHeads ==
    {[i \in 1..LcLimit |-> LcEntry(ToString(i), "firmware updated", "OK", i)],
     [i \in 1..LcLimit |-> LcEntry(ToString(i), ToString(100 + i),
                                    IF i % 2 = 0 THEN "Critical" ELSE "Warning", i)]}

\* A short SEL and a lifecycle log of more than LcLimit entries.
LongLcRemotes ==
    {(SystemPath :> SystemDoc)
        @@ (SelPath :> [Members |-> RawSel(order, n)])
        @@ (LcPath :> [Members |-> head \o tail]) :
        order \in {"ascending", "descending"}, n \in {0, 2}, head \in LcHeads,
        tail \in UNION {[1..k -> RawLcEntries] : k \in 1..MaxLcTail}}

InitLongLc ==
    /\ InitService
    /\ redfish \in LongLcRemotes
    /\ returned = NoReturn

SpecLongLc ==
    InitLongLc /\ [][NextCollector]_vars

\* --- malformed storage listings ---
\* A storage listing in which one member lacks its "@odata.id" field.
MalformedRemotes ==
    UNION {{[remote EXCEPT ![StoragePath] =
                [Members |-> [remote[StoragePath].Members EXCEPT
                                 ![i] = [Id |-> ControllerIds[i]]]]] :
                i \in 1..Len(remote[StoragePath].Members)} :
           remote \in StorageRemotes}

InitMalformedCollector ==
    /\ InitService
    /\ redfish \in MalformedRemotes
    /\ returned = NoReturn

SpecMalformedCollector ==
    InitMalformedCollector /\ [][NextCollector]_vars

\* Every collect, sleep and wait of the two threads ends, and a thread waiting
\* for update_lock gets it; shutdown_event comes when it comes.
FairStopping ==
    /\ SpecStopping
    /\ \A t \in Initializers : WF_vars(Initialize(t)) /\ SF_vars(InitLock(t))
    /\ WF_vars(Update("poller")) /\ SF_vars(UpdLock("poller"))
    /\ WF_vars(Monitor)

(***************************************************************************)
(* Properties of the refresh cycle, the poller and the initialization      *)
(* (SpecNoClients, FairNoClients)                                          *)
(***************************************************************************)
\* C1: a refresh cycle in which every call to the remote times out leaves
\* the cache as it was: when update_hardware_data returns, the cached
\* snapshot and the stored-time are the ones it found when it began.
C1_TimeoutKeepsCache ==
    [][\A t \in Updaters :
          (cycle[t].gw = "unreachable" /\ pc[t] \in UpdLabels /\ pc'[t] \notin UpdLabels)
              => /\ cached_hardware_data' = cycle[t].snapshot
                 /\ last_update_time' = cycle[t].time]_vars

\* C2: a collection against a completely unreachable remote fails: a thread
\* whose get_full_hardware_status ran against an unreachable remote never
\* holds a Snapshot that update_hardware_data accepted for storing.
C2_UnreachableFails ==
    \A t \in Updaters :
        cycle[t].gw = "unreachable" => ~(Truthy(data[t]) /\ Accepted(data[t]))

\* C5: the poller starts the reconnect sequence exactly when the counter of
\* consecutive failed refresh cycles reaches 5: it starts one only from the
\* evaluation of a cycle's result, with the counter at 5; a counter of 5 always
\* starts one; and no refresh cycle starts with 5 accumulated failures.
C5_ReconnectAtFive ==
    [][/\ (pc'["poller"] = "init_attempt" /\ pc["poller"] \notin InitLabels)
            => (pc["poller"] = "mon_result" /\ consecutive_failures' = 5)
       /\ (pc["poller"] = "mon_result" /\ consecutive_failures' >= 5)
            => pc'["poller"] = "init_attempt"
       /\ (pc'["poller"] = "upd_check" /\ pc["poller"] # "upd_check")
            => consecutive_failures < 5]_vars

\* C5, its case: the poller is starting a reconnect sequence with 5
\* consecutive failures counted.
C5_Witness ==
    /\ pc["poller"] = "init_attempt"
    /\ attempt["poller"] = 0
    /\ consecutive_failures = 5

\* C6: once the poller has evaluated a successful refresh cycle, the counter
\* of consecutive failures is zero, whatever it was.
C6_SuccessResets ==
    [][(pc["poller"] = "mon_result" /\ success["poller"] /\ pc'["poller"] # "mon_result")
          => consecutive_failures' = 0]_vars

\* C6, its case: a steady-state refresh has just succeeded after 4 failures
\* in a row.
C6_Witness ==
    /\ pc["poller"] = "mon_result"
    /\ success["poller"]
    /\ consecutive_failures = 4

\* C7: every run of initialize_idrac_client ends with the gate
\* initialization_complete open.
C7_GateOpens ==
    \A t \in Initializers :
        (pc[t] = "init_attempt") ~> (initialization_complete /\ pc[t] \notin InitLabels)

\* C7, its case: the startup initialization has failed all its attempts and
\* returned, and the gate is open over an empty cache.
C7_Witness ==
    /\ pc["init"] = "done"
    /\ initialization_complete
    /\ ~initial_data_fetched
    /\ cached_hardware_data = NoneVal

(***************************************************************************)
(* Properties of the read handlers against concurrent writes               *)
(* (SpecWellFormed)                                                        *)
(***************************************************************************)
\* Every Snapshot a collection can return and a write can be passed.
Collectable ==
    {Collected[time][mode].value : time \in 1..MaxTime, mode \in WellFormedModes}

\* C3: a response built from several reads of the cache shows one written
\* snapshot: the size and the three counts that get_cache_stats reports for a
\* non-empty cache are those of one and the same Snapshot.
C3_ReadsOneSnapshot ==
    (pc["web"] = "respond" /\ request = "stats" /\ resp.cache_size_bytes # 0)
        => \E written \in Collectable :
              /\ resp.cache_size_bytes = JsonSize(written)
              /\ resp.physical_disks_count = Len(written.physicalDisks)
              /\ resp.virtual_disks_count = Len(written.virtualDisks)
              /\ resp.alerts_count = Len(written.alerts)

\* C4: a response of get_server_status that carries a snapshot reports as
\* cached_at the time at which that snapshot was stored: the two were written
\* by one and the same write.
C4_SnapshotWithItsTime ==
    (pc["web"] = "respond" /\ request = "status" /\ "data" \in DOMAIN resp)
        => [snapshot |-> resp.data, time |-> resp.cached_at] \in writes

\* The statements at which a handler waits for the gate, reads the cache or
\* builds its response.
ReadLabels ==
    {"status_wait", "status_check", "status_build_data", "status_build_time",
     "list_wait", "list_check", "list_read", "list_time",
     "stats_size", "stats_time", "stats_physical", "stats_virtual", "stats_alerts"}

\* The next statement of a handler that is at one of the ReadLabels.
ReadStep ==
    \/ StatusWait
    \/ StatusCheck
    \/ StatusBuildData
    \/ StatusBuildTime
    \/ ListWait
    \/ ListCheck
    \/ ListRead
    \/ ListTime
    \/ StatsSize
    \/ StatsTime
    \/ StatsPhysical
    \/ StatsVirtual
    \/ StatsAlerts

\* C10: a read of a non-empty cache never waits for update_lock: whenever
\* another thread holds the lock, a handler at any statement of its read can
\* take that statement, and the statement does not lead to the lock.
C10_ReadsNeverBlock ==
    (pc["web"] \in ReadLabels /\ Truthy(cached_hardware_data)
        /\ update_lock \in Threads \ {"web"})
        => ENABLED (ReadStep /\ pc'["web"] \in ReadLabels \cup {"respond"})

\* C10, its case: get_server_status has read the snapshot for its response
\* while the poller, holding update_lock, is in its collection.
C10_Witness ==
    /\ pc["web"] = "status_build_time"
    /\ resp.data = cached_hardware_data
    /\ update_lock = "poller"
    /\ pc["poller"] = "upd_collect"

(***************************************************************************)
(* Properties of the read handlers over an empty cache (SpecMalformed)     *)
(***************************************************************************)
\* The read operations.
ReadOps ==
    {"status"} \cup ListHandlers

\* What a read operation answers when it finds the gate open and the cache
\* empty (and, for get_server_status, its fetch yields nothing).
EmptyCacheResponse(h) ==
    IF h = "status" THEN UnavailableResponse ELSE NoDataResponse(h)

\* C8: a read operation whose wait on the gate timed out answers otherwise
\* than it does when the gate is open and the cache is empty.
C8_TimeoutDistinguishable ==
    (pc["web"] = "respond" /\ request \in ReadOps /\ ~wait_result)
        => resp # EmptyCacheResponse(request)

\* C9: a read operation that finds the gate open and the cache empty goes on
\* to one update_hardware_data, and after it to no second one; when that
\* leaves the cache empty it answers the empty Snapshot with its error text.
C9_OneFetchThrough ==
    [][/\ (pc["web"] \in {"status_check", "list_check"} /\ wait_result
            /\ ~Truthy(cached_hardware_data) /\ pc'["web"] # pc["web"])
            => pc'["web"] = "upd_check"
       /\ (pc["web"] = "status_after" /\ pc'["web"] # "status_after")
            => /\ pc'["web"] # "upd_check"
               /\ ~Truthy(cached_hardware_data) => resp' = UnavailableResponse]_vars

(***************************************************************************)
(* Properties of the monitoring loop under shutdown (SpecStopping)         *)
(***************************************************************************)
\* The statements of monitoring_worker itself (main.py:140-175).
MonLabels ==
    {"mon_wait", "mon_first", "mon_loop", "mon_sleep", "mon_result", "mon_reset",
     "mon_exit"}

\* C11: while no stop signal has been given the poller never terminates:
\* monitoring_worker has left its loop only if is_monitoring is false,
\* whatever refresh cycles, exceptions or reconnect sequences failed before.
C11_LoopSurvivesFailures ==
    pc["poller"] = "mon_exit" => ~is_monitoring

\* The poller is back in its loop after a reconnect sequence that failed.
C11_Witness ==
    /\ pc["poller"] = "mon_reset"
    /\ is_monitoring
    /\ cached_hardware_data = NoneVal
    /\ ~initial_data_fetched

\* C12: once the stop signal has been given the poller starts no new
\* collect: with is_monitoring false, monitoring_worker neither calls
\* update_hardware_data (first fetch, steady-state refresh) nor
\* initialize_idrac_client (reconnect); it only moves within its own loop.
C12_NoCollectAfterStop ==
    [][(~is_monitoring /\ pc["poller"] \in MonLabels /\ pc'["poller"] # pc["poller"])
          => pc'["poller"] \in MonLabels]_vars

(***************************************************************************)
(* Properties of the cache writes (SpecWriters)                            *)
(***************************************************************************)
\* The statements that assign the cache: main.py:77-78 and main.py:116-117.
WriteLabels ==
    {"init_store_data", "init_store_time", "upd_store_data", "upd_store_time"}

\* C20: cache writes are mutually exclusive: no two threads are at the same
\* time between the start and the end of assigning cached_hardware_data and
\* last_update_time.
C20_WritesExclusive ==
    \A t, u \in Threads :
        (pc[t] \in WriteLabels /\ pc[u] \in WriteLabels) => t = u

\* One thread is in the middle of its write while another one, which has a
\* refresh to do, waits for update_lock.
C20_Witness ==
    /\ pc["poller"] = "upd_store_time"
    /\ update_lock = "poller"
    /\ pc["init"] = "init_lock"
    /\ pc["web"] = "upd_lock"

(***************************************************************************)
(* Properties of the alert list (SpecCollector)                            *)
(***************************************************************************)
\* The alert list that the collector just run returned.
AlertsReturned ==
    CASE returned.op = "alerts" -> returned.value
      [] returned.op = "full" /\ ~returned.raised -> returned.value.alerts
      [] OTHER -> <<>>

\* The raw entries of the two logs of the remote.
RawPrimary ==
    IF SelPath \in DOMAIN redfish THEN redfish[SelPath].Members ELSE <<>>

RawSecondary ==
    IF LcPath \in DOMAIN redfish THEN redfish[LcPath].Members ELSE <<>>

FromSecondary(alert) ==
    alert.entryType = "LifecycleLog"

\* C13: whatever the content and the order of the raw entries of the two
\* logs, the alert list returned has at most 20 entries and is sorted by
\* timestamp, newest first.
C13_AlertsCappedAndSorted ==
    /\ Len(AlertsReturned) <= 20
    /\ \A i, j \in 1..Len(AlertsReturned) :
          i < j => AlertsReturned[i].timestamp >= AlertsReturned[j].timestamp

\* More than 20 raw entries, oldest first, and a lifecycle entry newer than
\* all of them: the list returned is full and holds the lifecycle entry.
C13_Witness ==
    /\ returned.op = "alerts"
    /\ Len(RawPrimary) = MaxSel
    /\ RawPrimary[1].Created < RawPrimary[MaxSel].Created
    /\ Len(AlertsReturned) = 20
    /\ \E i \in 1..20 : FromSecondary(AlertsReturned[i])

\* C14: in the alert list returned, no entry taken from the lifecycle log
\* has the message text of an entry of the list taken from the SEL.
C14_NoDuplicateMessage ==
    \A i, j \in 1..Len(AlertsReturned) :
        (FromSecondary(AlertsReturned[i]) /\ ~FromSecondary(AlertsReturned[j]))
            => AlertsReturned[i].message # AlertsReturned[j].message

\* A critical lifecycle entry repeats the message of a SEL entry of the list
\* returned, and another lifecycle entry made it into the list.
C14_Witness ==
    /\ returned.op = "alerts"
    /\ \E k \in 1..Len(RawSecondary), i \in 1..Len(AlertsReturned) :
          /\ RawSecondary[k].Severity = "Critical"
          /\ ~FromSecondary(AlertsReturned[i])
          /\ AlertsReturned[i].message = RawSecondary[k].Message
    /\ \E i \in 1..Len(AlertsReturned) : FromSecondary(AlertsReturned[i])

\* The raw entries that qualify as alerts: severity critical or warning, or,
\* in the SEL, entry type "sel" or "alert".
SevereRaw(entry) ==
    "Severity" \in DOMAIN entry
        /\ entry.Severity \in {"Critical", "CRITICAL", "critical", "Warning", "WARNING", "warning"}

QualifyingPrimary ==
    {i \in 1..Len(RawPrimary) :
        \/ SevereRaw(RawPrimary[i])
        \/ /\ "EntryType" \in DOMAIN RawPrimary[i]
           /\ RawPrimary[i].EntryType \in {"SEL", "Sel", "sel", "Alert", "ALERT", "alert"}}

QualifyingSecondary ==
    {k \in 1..Len(RawSecondary) : SevereRaw(RawSecondary[k])}

\* The qualifying lifecycle entries whose message is that of a qualifying
\* SEL entry.
DuplicateSecondary ==
    {k \in QualifyingSecondary :
        \E i \in QualifyingPrimary :
            "Message" \in DOMAIN RawPrimary[i] /\ RawPrimary[i].Message = RawSecondary[k].Message}

\* C15: when the SEL yields more than 20 qualifying entries and the lifecycle
\* log k qualifying entries of which d repeat the message of a qualifying
\* SEL entry, the list returned has exactly 20 entries, newest first, of
\* which at most k - d come from the lifecycle log.
C15_ScenarioC ==
    (returned.op = "alerts" /\ Cardinality(QualifyingPrimary) > 20)
        => /\ Len(AlertsReturned) = 20
           /\ \A i, j \in 1..Len(AlertsReturned) :
                 i < j => AlertsReturned[i].timestamp >= AlertsReturned[j].timestamp
           /\ Cardinality({i \in 1..Len(AlertsReturned) : FromSecondary(AlertsReturned[i])})
                 <= Cardinality(QualifyingSecondary) - Cardinality(DuplicateSecondary)

\* C19: every alert of a list returned has the severity critical, warning or
\* information, whatever the severity and entry type of the raw entries.
C19_SeverityDomain ==
    \A i \in 1..Len(AlertsReturned) :
        AlertsReturned[i].severity \in {"critical", "warning", "information"}

(***************************************************************************)
(* Properties of the status normalization, the disk list and the identity  *)
(* (SpecCollector)                                                         *)
(***************************************************************************)
\* The status object of the identity document of the remote.
StatusGiven ==
    IF SystemPath \in DOMAIN redfish
    THEN Get(redfish[SystemPath], "Status", EmptyDict)
    ELSE EmptyDict

\* The precedence of section 4.1 over the spellings of each value.
NormalizeReference(status) ==
    LET state == Get(status, "State", "")
        health == Get(status, "Health", "")
        rollup == Get(status, "HealthRollup", "")
        critical == {"critical", "Critical", "CRITICAL"}
        warning == {"warning", "Warning", "WARNING"}
        ok == {"ok", "Ok", "OK"}
    IN  CASE health \in critical \/ rollup \in critical -> "critical"
          [] health \in warning \/ rollup \in warning -> "warning"
          [] health \in ok \/ rollup \in ok ->
                IF state \in {"standbyspare", "StandbySpare"} THEN "standby" ELSE "healthy"
          [] state \in {"absent", "Absent", "unavailableoffline", "UnavailableOffline"} -> "offline"
          [] OTHER -> "unknown"

\* C16: for every (state, health, healthRollup), each absent or a string in
\* any letter case, _normalize_status returns one canonical status, the one
\* of the first-match-wins reference: critical, else warning, else (if
\* either health is ok) standby for a standby spare and healthy otherwise,
\* else offline for an absent or offline state, else unknown.
C16_NormalizeMatchesReference ==
    returned.op = "normalize"
        => /\ returned.value \in {"healthy", "warning", "critical", "standby", "offline", "unknown"}
           /\ returned.value = NormalizeReference(StatusGiven)

\* An upper-case critical health with a warning rollup and an enabled state
\* is critical.
C16_Witness ==
    /\ returned.op = "normalize"
    /\ Get(StatusGiven, "Health", "") = "CRITICAL"
    /\ Get(StatusGiven, "HealthRollup", "") = "Warning"
    /\ Get(StatusGiven, "State", "") = "Enabled"
    /\ returned.value = "critical"

\* The drive references of the controllers of the remote, in the order of
\* the storage collection and of each controller's listing.
ListedDrives(controller_ref) ==
    LET path == controller_ref[OdataId]
        listing == path \o <<"Drives">>
    IN  IF path \notin DOMAIN redfish THEN <<>>
        ELSE IF "Drives" \in DOMAIN redfish[path] THEN redfish[path].Drives
        ELSE IF listing \in DOMAIN redfish THEN redfish[listing].Members
        ELSE <<>>

RECURSIVE DrivesListedBy(_)
DrivesListedBy(controllers) ==
    IF controllers = <<>> THEN <<>>
    ELSE ListedDrives(Head(controllers)) \o DrivesListedBy(Tail(controllers))

DiscoveredDrives ==
    IF StoragePath \in DOMAIN redfish
    THEN DrivesListedBy(redfish[StoragePath].Members)
    ELSE <<>>

HasDetail(drive_ref) ==
    drive_ref[OdataId] \in DOMAIN redfish

\* C17: the physical-disk list has exactly one entry per drive reference
\* whose detail resource is present, in discovery order; a drive without
\* detail is left out, and neither the other drives nor the volumes nor the
\* ServerInfo are lost with it.
C17_DisksWithDetail ==
    returned.op \in {"physical", "full"}
        => LET expected == SelectSeq(DiscoveredDrives, HasDetail)
               disks == IF returned.op = "full"
                        THEN returned.value.physicalDisks ELSE returned.value
           IN  /\ ~returned.raised
               /\ Len(disks) = Len(expected)
               /\ \A i \in 1..Len(expected) : disks[i].id = LastSegment(expected[i][OdataId])
               /\ (returned.op = "full" /\ VolumePath("Disk.Virtual.0") \in DOMAIN redfish)
                      => Len(returned.value.virtualDisks) = 1
               /\ (returned.op = "full" /\ SystemPath \in DOMAIN redfish
                        /\ "Name" \in DOMAIN redfish[SystemPath])
                      => returned.value.serverInfo.name = redfish[SystemPath].Name

\* Two controllers, and a drive without detail listed before drives that
\* have one: the Snapshot holds the drives after it.
C17_Witness ==
    /\ returned.op = "full"
    /\ StoragePath \in DOMAIN redfish
    /\ Len(redfish[StoragePath].Members) = 2
    /\ DiscoveredDrives # <<>>
    /\ ~HasDetail(DiscoveredDrives[1])
    /\ ~returned.raised
    /\ Len(returned.value.physicalDisks) = 2
    /\ Len(returned.value.virtualDisks) = 1

\* C18: the ServerInfo of a Snapshot has the same keys whether the identity
\* document is whole, partial or absent: UUID, host name, indicator LED,
\* status and the parts of the processor and memory summaries are present
\* with a sentinel when the source omits them.
C18_ServerInfoKeys ==
    (returned.op = "full" /\ ~returned.raised)
        => LET info == returned.value.serverInfo
           IN  /\ {"name", "model", "manufacturer", "serialNumber", "powerState",
                   "biosVersion", "uuid", "hostName", "indicatorLED", "status",
                   "processorSummary", "memorySummary"} \subseteq DOMAIN info
               /\ {"count", "model", "status"} \subseteq DOMAIN info.processorSummary
               /\ {"totalSystemMemoryGiB", "status"} \subseteq DOMAIN info.memorySummary

(***************************************************************************)
(* Properties of the writers: failed refreshes, the initialization         *)
(* sequence and the gate (SpecWriters, SpecNoClients)                      *)
(***************************************************************************)
\* C21: a refresh that fails, because the monitor is missing or because the
\* collection raised or was rejected, leaves the cached snapshot and the
\* stored-time as they were: update_hardware_data returns False without
\* assigning them, and they are those it found when it took the lock.
C21_FailedRefreshKeepsCache ==
    [][\A t \in Updaters :
          (pc[t] \in {"upd_check", "upd_collect"} /\ pc'[t] \notin UpdLabels)
              => /\ cached_hardware_data' = cached_hardware_data
                 /\ last_update_time' = last_update_time
                 /\ pc[t] = "upd_collect"
                       => /\ cached_hardware_data' = cycle[t].snapshot
                          /\ last_update_time' = cycle[t].time]_vars

\* The poller's refresh has failed on a collection that raised, and the cache
\* still holds the Snapshot stored before.
C21_Witness ==
    /\ pc["poller"] = "mon_result"
    /\ ~success["poller"]
    /\ hardware_monitor = "monitor"
    /\ Truthy(cached_hardware_data)
    /\ last_update_time # 0

\* C22: when the poller has run the reconnect sequence, the counter of
\* consecutive failures is zero as the steady-state loop resumes, whether
\* the reconnect stored data or failed all its attempts; so the counter is
\* below 5 whenever the poller is in its loop or starts a refresh from it.
C22_CounterResetAfterReconnect ==
    [][/\ (pc["poller"] = "mon_reset" /\ pc'["poller"] # "mon_reset")
            => (pc'["poller"] = "mon_loop" /\ consecutive_failures' = 0)
       /\ pc'["poller"] \in {"mon_loop", "mon_sleep"} => consecutive_failures' < 5
       /\ callsite'["poller"] = "steady" => consecutive_failures' < 5]_vars

\* The reconnect sequence has failed all its attempts; the counter is still
\* at the threshold and the loop is about to resume.
C22_Witness ==
    /\ pc["poller"] = "mon_reset"
    /\ consecutive_failures = 5
    /\ initialization_complete
    /\ ~Truthy(cached_hardware_data)

C24_StoredBeforeSignalled ==
    /\ initial_data_fetched => (Truthy(cached_hardware_data) /\ last_update_time # 0)
    /\ \A t \in Initializers :
          pc[t] = "init_set_fetched" => (initialization_complete /\ Truthy(cached_hardware_data))
    /\ (pc["web"] = "status_check" /\ wait_result /\ initial_data_fetched)
          => Truthy(cached_hardware_data)

\* A reader has passed the gate that the successful startup initialization
\* opened, and is about to test the cache.
C24_Witness ==
    /\ pc["web"] = "status_check"
    /\ wait_result
    /\ initial_data_fetched
    /\ pc["init"] = "done"
    /\ Truthy(cached_hardware_data)

\* C25: the gate is one-shot: once initialization_complete is set it stays
\* set, also while the poller runs a reconnect sequence, so a request that
\* arrives after the first completed initialization passes its wait at once.
C25_GateOneShot ==
    [][/\ initialization_complete => initialization_complete'
       /\ (initialization_complete /\ pc["web"] \in {"status_wait", "list_wait"}
              /\ pc'["web"] # pc["web"])
            => wait_result']_vars

\* The poller is in a reconnect sequence, the gate is open, and a request
\* has passed its wait.
C25_Witness ==
    /\ pc["poller"] = "init_collect"
    /\ initialization_complete
    /\ pc["web"] = "status_check"
    /\ wait_result

(***************************************************************************)
(* Termination of the poller (FairStopping)                                *)
(***************************************************************************)
\* C26: after the stop signal the poller thread eventually terminates,
\* wherever the signal found it: waiting for the initial data, sleeping,
\* collecting or reconnecting.
C26_PollerTerminates ==
    ~is_monitoring ~> pc["poller"] = "mon_exit"

\* The poller has left its loop while the startup initialization is still
\* collecting.
C26_Witness ==
    /\ ~is_monitoring
    /\ pc["poller"] = "mon_exit"
    /\ pc["init"] = "init_collect"

(***************************************************************************)
(* Ownership of the client (SpecWriters)                                   *)
(***************************************************************************)
\* C27: the client is held by one component at a time: while an
\* initialization or reconnect sequence is collecting through the client it
\* built, no other thread is in a collect of update_hardware_data, and no
\* sequence replaces hardware_monitor while such a collect is in progress.
C27_ClientHeldByOne ==
    [][/\ \A t \in Initializers, u \in Updaters :
             t # u => ~(pc'[t] = "init_collect" /\ pc'[u] = "upd_collect")
       /\ hardware_monitor' # hardware_monitor
             => \A u \in Updaters : pc[u] # "upd_collect"
       /\ \A t \in Initializers, u \in Updaters :
             (t # u /\ pc[t] = "init_attempt" /\ pc'[t] = "init_collect")
                 => pc[u] # "upd_collect"]_vars

(***************************************************************************)
(* Volumes of a controller without a volumes link (SpecCollector)          *)
(***************************************************************************)
\* C28: for every controller whose record carries no Volumes link, every
\* volume of the controller's direct Volumes listing whose detail is present
\* appears among the virtualDisks of the Snapshot.
C28_DirectVolumesListed ==
    (returned.op = "full" /\ ~returned.raised /\ StoragePath \in DOMAIN redfish)
        => \A i \in 1..Len(redfish[StoragePath].Members) :
              LET controller == redfish[StoragePath].Members[i][OdataId]
                  direct == controller \o <<"Volumes">>
              IN  (/\ controller \in DOMAIN redfish
                   /\ "Volumes" \notin DOMAIN redfish[controller]
                   /\ direct \in DOMAIN redfish)
                      => \A j \in 1..Len(redfish[direct].Members) :
                            LET volume == redfish[direct].Members[j][OdataId]
                            IN  volume \in DOMAIN redfish
                                   => \E k \in 1..Len(returned.value.virtualDisks) :
                                         returned.value.virtualDisks[k].id
                                             = redfish[volume].Id

(***************************************************************************)
(* Malformed sub-resources (SpecMalformedCollector)                        *)
(***************************************************************************)
\* C29: a storage member without its "@odata.id" field is skipped like a
\* missing one: neither the physical-disk collection nor the full collection
\* fails, and the full collection still returns the identity of the server.
C29_MalformedSkipped ==
    returned.op \in {"physical", "full"}
        => /\ ~returned.raised
           /\ returned.op = "full"
                 => returned.value.serverInfo.name = redfish[SystemPath].Name

(***************************************************************************)
(* The cache is never emptied (SpecLifetime)                               *)
(***************************************************************************)
\* C30: once the cache holds a Snapshot it holds one after every step, and
\* once the stored time is set it stays set: no failed refresh, failed
\* reconnect, read or shutdown resets either of them to none.
C30_CacheNeverEmptied ==
    [][/\ Truthy(cached_hardware_data) => Truthy(cached_hardware_data')
       /\ last_update_time # 0 => last_update_time' # 0]_vars

\* The cache holds a Snapshot, the monitoring was stopped, and the reconnect
\* that followed five failed refreshes has returned without any
\* initialization ever having succeeded: it gave up, and the Snapshot that
\* an earlier refresh stored is still there.
C30_Witness ==
    /\ Truthy(cached_hardware_data)
    /\ last_update_time # 0
    /\ ~initial_data_fetched
    /\ ~is_monitoring
    /\ consecutive_failures = max_consecutive_failures
    /\ pc["poller"] = "mon_reset"

(***************************************************************************)
(* Order of the cache writes (SpecWriters)                                 *)
(***************************************************************************)
\* C31: a cache write never replaces a Snapshot by one whose collection
\* started earlier than the collection of the Snapshot it replaces.
C31_CacheNeverRegresses ==
    [][(Truthy(cached_hardware_data) /\ Truthy(cached_hardware_data'))
          => cached_hardware_data'.lastRefresh >= cached_hardware_data.lastRefresh]_vars

(***************************************************************************)
(* The fetch-through of a read request (SpecWriters)                       *)
(***************************************************************************)
\* C32: a read request that found the cache empty and waited for
\* update_lock starts its own collect only if the cache is still empty when
\* it gets the lock.
C32_FetchThroughOnlyWhenEmpty ==
    [][(/\ callsite["web"] = "status"
        /\ pc["web"] = "upd_lock"
        /\ pc'["web"] = "upd_collect")
          => ~Truthy(cached_hardware_data)]_vars

(***************************************************************************)
(* Release of update_lock (SpecWriters)                                    *)
(***************************************************************************)
\* The statements inside the two `with update_lock` blocks.
LockedLabels ==
    {"upd_collect", "upd_store_data", "upd_store_time", "init_store_data", "init_store_time"}

\* The next statement of the thread that is inside a with block.
HolderStep(t) ==
    \/ t \in Updaters /\ (UpdCollect(t, WriterModes) \/ UpdStoreData(t) \/ UpdStoreTime(t))
    \/ t \in Initializers /\ (InitStoreData(t) \/ InitStoreTime(t))

\* C33: update_lock is held only by a thread that is inside its with block,
\* is free as soon as that thread has left the block by any outcome, and the
\* thread inside the block never waits for anything: it can always take its
\* next statement, so the lock is released and nobody waits for it forever.
C33_LockAlwaysReleased ==
    /\ update_lock # "free" => pc[update_lock] \in LockedLabels
    /\ \A t \in Threads : pc[t] \in LockedLabels => update_lock = t
    /\ \A t \in Threads : update_lock = t => ENABLED HolderStep(t)

\* The collection of the poller has just raised under the lock: the lock is
\* free again while a read request and the initialization wait for it.
C33_Witness ==
    /\ pc["poller"] = "mon_result"
    /\ ~success["poller"]
    /\ update_lock = "free"
    /\ pc["web"] = "upd_lock"
    /\ pc["init"] = "init_lock"

(***************************************************************************)
(* The lifecycle log beyond its tenth entry (SpecLongLc)                   *)
(***************************************************************************)
\* The remote with its lifecycle log cut after the first LcLimit entries.
CutAfterLimit ==
    [reachable |-> TRUE,
     docs |-> [redfish EXCEPT ![LcPath] = [Members |-> Take(redfish[LcPath].Members, LcLimit)]]]

====
